---- MODULE Spec2Model ----
(***************************************************************************)
(* A model of the barley-yield pipeline: the silver -> gold feature        *)
(* derivation (src/src/pipelines/data/silver_to_gold.py), the assembly of  *)
(* the training / validation / scenario tables, and the column sets handed *)
(* to the regressor (model_inputs_loading.py, prediction_utils.py).        *)
(*                                                                         *)
(* Representation.  A pandas table is a sequence of records, one record    *)
(* per row, the record's fields being the columns.  Precipitation is in    *)
(* hundredths of a millimetre and temperature in hundredths of a kelvin,   *)
(* so that the thresholds 0.1 mm, 20.0 mm, 273.15 K and 303.15 K are the   *)
(* integers 10, 2000, 27315 and 30315.  A timestamp is the integer         *)
(* YYYYMMDD; the year column of a daily row is the year of its timestamp,  *)
(* as in the climate source.  A missing value is NaN.                      *)
(***************************************************************************)
EXTENDS Integers, Sequences, FiniteSets, TLC

VARIABLES
    pc,                    \* position in the run
    df_yield,              \* silver yield table (yield_clean)
    df_climate,            \* silver climate table (daily, all scenarios)
    validation_threshold,  \* the threshold passed to create_gold_datasets
    todo,                  \* scenarios the loop of silver_to_gold has left
    scenario_data,         \* the slice of the current scenario
    dry_periods_df,        \* dry_periods(scenario_data)
    extreme_events_df,     \* extreme_temperatures_and_rain(scenario_data)
    precip_lag_df,         \* precipitation_lag(scenario_data)
    seasonal_features_df,  \* seasonal_temperatures_and_rain(scenario_data)
    scenario_features,     \* the list the loop appends scenario_clean to
    climate_clean,         \* the concatenated feature table (climate_full)
    training_data,
    validation_data,
    future_climate,        \* the third table create_gold_datasets returns
    dep_encoder,           \* classes_ of the fitted LabelEncoder
    X_train,               \* load_training_data: features of the training rows
    y_train,
    X_test,
    y_test,
    X_train_columns,       \* the columns of X_train
    scenario_inputs,       \* prepare_prediction_data: the encoded scenarios
    predict_columns,       \* the columns passed to model.predict, per scenario
    reports,               \* the report tables prediction_pipeline writes
    report_columns,        \* the columns of each report table, in order
    df_yield_raw,          \* bronze yield table
    df_climate_raw,        \* bronze climate table (long format)
    yield_raw_columns,     \* the columns of the bronze yield file
    climate_raw_columns,   \* the columns of the bronze climate file
    model_types,           \* the model types train_models has left
    mlflow_runs,           \* the runs started, with what was logged in each
    raised                 \* the exception that ended the run, <<>> if none

input_vars == <<df_yield, df_climate, validation_threshold>>

gold_vars == <<training_data, validation_data, future_climate>>

model_vars == <<dep_encoder, X_train, y_train, X_test, y_test, X_train_columns,
                scenario_inputs, predict_columns, reports, report_columns>>

bronze_vars == <<df_yield_raw, df_climate_raw, yield_raw_columns,
                 climate_raw_columns>>

train_vars == <<model_types, mlflow_runs>>

vars == <<pc, input_vars, todo, scenario_data, dry_periods_df,
          extreme_events_df, precip_lag_df, seasonal_features_df,
          scenario_features, climate_clean, gold_vars, model_vars,
          bronze_vars, train_vars, raised>>

----------------------------------------------------------------------------
(* Program constants                                                       *)

NaN == -1

DRY_DAY_PRECIP_THRESHOLD_MM == 10
MIN_DRY_SPELL_DAYS == 7
FREEZE_THRESHOLD_KELVIN == 27315
HEAT_THRESHOLD_KELVIN == 30315
HEAVY_RAIN_THRESHOLD_MM == 2000
GROWING_SEASON_START_MONTH == 3
GROWING_SEASON_END_MONTH == 7
WINTER_START_MONTH == 9
WINTER_MONTHS == {9, 10, 11, 12, 1, 2}
VALIDATION_THRESHOLD_YEAR == 2013

SCENARIO_HISTORICAL == "historical"
SCENARIO_SSP1_2_6 == "ssp1_2_6"
SCENARIO_SSP2_4_5 == "ssp2_4_5"
SCENARIO_SSP5_8_5 == "ssp5_8_5"

----------------------------------------------------------------------------
(* Generic table helpers                                                   *)

Range(s) == {s[i] : i \in DOMAIN s}

NoTable == <<>>

Max(S) == CHOOSE x \in S : \A y \in S : y <= x

RECURSIVE SumSet(_)
SumSet(S) ==
    IF S = {} THEN 0
    ELSE LET x == CHOOSE y \in S : TRUE IN x[2] + SumSet(S \ {x})

isna(v) == v = NaN

(* The order pandas gives strings: the names the model uses, in            *)
(* lexicographic order.                                                    *)
SortedNames ==
    <<"Ain", "Aisne", "historical", "ssp1_2_6", "ssp2_4_5", "ssp3_7_0",
      "ssp5_8_5">>

StrRank(s) == CHOOSE i \in DOMAIN SortedNames : SortedNames[i] = s

(* Series.unique() / drop_duplicates(): first occurrences, in order.       *)
RECURSIVE drop_duplicates(_)
drop_duplicates(s) ==
    IF s = <<>> THEN <<>>
    ELSE LET n == Len(s)
             head == drop_duplicates(SubSeq(s, 1, n - 1))
         IN IF s[n] \in Range(head) THEN head ELSE Append(head, s[n])

(* df[[nom_dep, year]]                                                     *)
DeptYear(df) == [i \in DOMAIN df |-> [nom_dep |-> df[i].nom_dep, year |-> df[i].year]]

Column(df, c) == [i \in DOMAIN df |-> df[i][c]]

SameKey(a, b) == a.nom_dep = b.nom_dep /\ a.year = b.year

----------------------------------------------------------------------------
(* Operations shared by the feature extractors                             *)

(* df[SILVER_TIME].dt.month of a YYYYMMDD timestamp.                       *)
month(time) == (time \div 100) % 100

(* The order of sort_values([SILVER_NOM_DEP, SILVER_TIME]).                *)
DepTimeLess(a, b) ==
    \/ StrRank(a.nom_dep) < StrRank(b.nom_dep)
    \/ a.nom_dep = b.nom_dep /\ a.time < b.time

(* The order groupby([SILVER_NOM_DEP, SILVER_YEAR]) gives its groups.      *)
DepYearLess(a, b) ==
    \/ StrRank(a.nom_dep) < StrRank(b.nom_dep)
    \/ a.nom_dep = b.nom_dep /\ a.year < b.year

sort_values_unsorted(df) == df

(* sort_values([SILVER_NOM_DEP, SILVER_TIME]), a stable sort: a row goes   *)
(* after the rows with a smaller key and after the earlier rows with an    *)
(* equal key.                                                              *)
sort_values(df) ==
    LET pos(i) == 1 + Cardinality({j \in DOMAIN df :
                         \/ DepTimeLess(df[j], df[i])
                         \/ ~DepTimeLess(df[i], df[j]) /\ j < i})
    IN [k \in DOMAIN df |-> df[CHOOSE i \in DOMAIN df : pos(i) = k]]

(* The keys of a groupby on (department, year), which sorts them.          *)
SortKeys(S) ==
    [k \in 1..Cardinality(S) |->
        CHOOSE x \in S : Cardinality({y \in S : DepYearLess(y, x)}) = k - 1]

(* The keys of groupby([SILVER_NOM_DEP, SILVER_YEAR]), sorted.             *)
GroupKeys(df) == SortKeys(Range(DeptYear(df)))

(* Series.sum() of a column: missing values are skipped, and the sum of    *)
(* nothing is 0.                                                           *)
sum(df, col) ==
    SumSet({<<i, df[i][col]>> : i \in {j \in DOMAIN df : ~isna(df[j][col])}})

StripKeys(r) == [c \in (DOMAIN r) \ {"nom_dep", "year"} |-> r[c]]

(* left.merge(right, on=[SILVER_NOM_DEP, SILVER_YEAR], how="left"): every  *)
(* left row, once per right row with its key, or once with the right       *)
(* columns missing (fill) when there is none.                              *)
RECURSIVE merge_left(_, _, _)
merge_left(left, right, fill) ==
    IF left = <<>> THEN <<>>
    ELSE LET n == Len(left)
             l == left[n]
             hit(r) == r.nom_dep = l.nom_dep /\ r.year = l.year
             matches == SelectSeq(right, hit)
         IN merge_left(SubSeq(left, 1, n - 1), right, fill)
            \o (IF matches = <<>> THEN <<l @@ fill>>
                ELSE [j \in DOMAIN matches |-> l @@ StripKeys(matches[j])])

----------------------------------------------------------------------------
(* dry_periods                                                             *)

is_dry_or_missing(row) == row.precip < DRY_DAY_PRECIP_THRESHOLD_MM

is_dry_inclusive(row) ==
    ~isna(row.precip) /\ row.precip <= DRY_DAY_PRECIP_THRESHOLD_MM

(* df[precip_col] < DRY_DAY_PRECIP_THRESHOLD_MM; a comparison with a       *)
(* missing value is False.                                                 *)
is_dry(row) == ~isna(row.precip) /\ row.precip < DRY_DAY_PRECIP_THRESHOLD_MM

(* groupby(SILVER_NOM_DEP)["is_dry"].shift(): the index of the row before, *)
(* among the rows of the same department; 0 when there is none.            *)
shift(df, i) ==
    LET before == {j \in 1..(i - 1) : df[j].nom_dep = df[i].nom_dep}
    IN IF before = {} THEN 0 ELSE Max(before)

(* A run that also ends where the next record is not the next day.         *)
starts_group_calendar(df, i) ==
    LET j == shift(df, i)
    IN j = 0 \/ is_dry(df[i]) # is_dry(df[j]) \/ df[i].time # df[j].time + 1

(* df["is_dry"] != shifted: True on the first row of a department.         *)
starts_group(df, i) ==
    LET j == shift(df, i) IN j = 0 \/ is_dry(df[i]) # is_dry(df[j])

(* (...).cumsum()                                                          *)
dry_group(df, i) == Cardinality({k \in 1..i : starts_group(df, k)})

(* Runs as stretches of dry rows of the sorted table, whatever the         *)
(* department: a run belongs to the department and year of its first row.  *)
dry_runs_across_departments(df) ==
    LET dry == {i \in DOMAIN df : is_dry(df[i])}
        first == {i \in dry : i = 1 \/ (i - 1) \notin dry}
        last(i) == Max({j \in dry : \A k \in i..j : k \in dry})
    IN {[nom_dep |-> df[i].nom_dep, year |-> df[i].year, dry_group |-> i,
         run_length |-> last(i) - i + 1] : i \in first}

(* Runs grouped by department and dry_group only: a run belongs to the     *)
(* year of its first row.                                                  *)
dry_runs_across_years(df) ==
    LET group == [i \in DOMAIN df |-> dry_group(df, i)]
        dry == {i \in DOMAIN df : is_dry(df[i])}
        key == [i \in dry |-> <<df[i].nom_dep, group[i]>>]
        first(k) == df[CHOOSE i \in dry : key[i] = k /\ \A j \in dry :
                                              key[j] = k => i <= j]
    IN {[nom_dep |-> k[1], year |-> first(k).year, dry_group |-> k[2],
         run_length |-> Cardinality({i \in dry : key[i] = k})] :
           k \in {key[i] : i \in dry}}

(* df[df["is_dry"]].groupby([dep, year, "dry_group"]).size()               *)
dry_runs(df) ==
    LET group == [i \in DOMAIN df |-> dry_group(df, i)]
        dry == {i \in DOMAIN df : is_dry(df[i])}
        key == [i \in dry |-> <<df[i].nom_dep, df[i].year, group[i]>>]
    IN {[nom_dep |-> k[1], year |-> k[2], dry_group |-> k[3],
         run_length |-> Cardinality({i \in dry : key[i] = k})] :
           k \in {key[i] : i \in dry}}

long_enough_strict(run_length, threshold) == run_length > threshold

(* lambda x: (x >= threshold).sum()                                        *)
long_enough(run_length, threshold) == run_length >= threshold

fillna_keep(v) == v

(* fillna(0).astype(int)                                                   *)
fillna(v) == IF isna(v) THEN 0 ELSE v

DryFill == [dry_periods_count |-> NaN, max_dry_spell_days |-> NaN]

dry_periods(climate_data, threshold) ==
    LET df == sort_values(climate_data)
        runs == dry_runs(df)
        keys == SortKeys({[nom_dep |-> r.nom_dep, year |-> r.year] : r \in runs})
        of(k) == {r \in runs : r.nom_dep = k.nom_dep /\ r.year = k.year}
        result == [i \in DOMAIN keys |->
                     [nom_dep |-> keys[i].nom_dep, year |-> keys[i].year,
                      dry_periods_count |->
                          Cardinality({r \in of(keys[i]) :
                              long_enough(r.run_length, threshold)}),
                      max_dry_spell_days |->
                          Max({r.run_length : r \in of(keys[i])})]]
        all_dept_years == drop_duplicates(DeptYear(climate_data))
        merged == merge_left(all_dept_years, result, DryFill)
    IN [i \in DOMAIN merged |->
          [merged[i] EXCEPT !.dry_periods_count = fillna(@),
                            !.max_dry_spell_days = fillna(@)]]

----------------------------------------------------------------------------
(* extreme_temperatures_and_rain                                           *)

is_freeze_inclusive(row) ==
    ~isna(row.temp_max) /\ row.temp_max <= FREEZE_THRESHOLD_KELVIN

is_freeze(row) == ~isna(row.temp_max) /\ row.temp_max < FREEZE_THRESHOLD_KELVIN

is_heat(row) == ~isna(row.temp_max) /\ row.temp_max > HEAT_THRESHOLD_KELVIN

is_heavy_rain(row) == ~isna(row.precip) /\ row.precip > HEAVY_RAIN_THRESHOLD_MM

extreme_temperatures_and_rain(climate_data) ==
    LET df == sort_values(climate_data)
        keys == GroupKeys(df)
    IN [i \in DOMAIN keys |->
          LET freeze(r) == SameKey(r, keys[i]) /\ is_freeze(r)
              heat(r) == SameKey(r, keys[i]) /\ is_heat(r)
              rain(r) == SameKey(r, keys[i]) /\ is_heavy_rain(r)
          IN [nom_dep |-> keys[i].nom_dep, year |-> keys[i].year,
              freeze_days_count |-> Len(SelectSeq(df, freeze)),
              heat_days_count |-> Len(SelectSeq(df, heat)),
              heavy_rain_days_count |-> Len(SelectSeq(df, rain))]]

----------------------------------------------------------------------------
(* precipitation_lag                                                       *)

growing_year_same(row) == row.year

(* row[SILVER_YEAR] + 1 if row["month"] >= WINTER_START_MONTH else year    *)
growing_year(row) ==
    IF month(row.time) >= WINTER_START_MONTH THEN row.year + 1 ELSE row.year

is_winter(row) == month(row.time) \in WINTER_MONTHS

precipitation_lag(climate_data) ==
    LET winter_df == SelectSeq(climate_data, is_winter)
        keys == SortKeys({[nom_dep |-> r.nom_dep, year |-> growing_year(r)] :
                             r \in Range(winter_df)})
    IN [i \in DOMAIN keys |->
          LET member(r) == /\ r.nom_dep = keys[i].nom_dep
                           /\ growing_year(r) = keys[i].year
          IN [nom_dep |-> keys[i].nom_dep, year |-> keys[i].year,
              winter_precip_total |-> sum(SelectSeq(winter_df, member), "precip")]]

----------------------------------------------------------------------------
(* seasonal_temperatures_and_rain: its keys and its precipitation totals.  *)
(* The statistics of temp_mean (mean, min, max, std) are real-valued and   *)
(* are not part of this model; they add columns, never rows.               *)

season(row) ==
    IF /\ GROWING_SEASON_START_MONTH <= month(row.time)
       /\ month(row.time) <= GROWING_SEASON_END_MONTH
    THEN "growing" ELSE "non_growing"

seasonal_temperatures_and_rain(climate_data) ==
    LET df == sort_values(climate_data)
        keys == GroupKeys(df)
    IN [i \in DOMAIN keys |->
          LET growing(r) == SameKey(r, keys[i]) /\ season(r) = "growing"
              non_growing(r) == SameKey(r, keys[i]) /\ season(r) = "non_growing"
          IN [nom_dep |-> keys[i].nom_dep, year |-> keys[i].year,
              total_precip_growing |->
                  IF SelectSeq(df, growing) = <<>> THEN NaN
                  ELSE sum(SelectSeq(df, growing), "precip"),
              total_precip_non_growing |->
                  IF SelectSeq(df, non_growing) = <<>> THEN NaN
                  ELSE sum(SelectSeq(df, non_growing), "precip")]]

----------------------------------------------------------------------------
(* The body of the loop of silver_to_gold: the features of one scenario.   *)

ExtremeFill ==
    [freeze_days_count |-> NaN, heat_days_count |-> NaN,
     heavy_rain_days_count |-> NaN]

SeasonalFill == [total_precip_growing |-> NaN, total_precip_non_growing |-> NaN]

LagFillZero == [winter_precip_total |-> 0]

LagFill == [winter_precip_total |-> NaN]

(* The merges with an outer merge of the winter totals: the totals of a    *)
(* (department, year) without daily record get a row of their own.         *)
scenario_clean_outer(scenario, data, dry_df, extreme_df, seasonal_df, lag_df) ==
    LET base == drop_duplicates(DeptYear(data))
        tagged == [i \in DOMAIN base |-> base[i] @@ [scenario |-> scenario]]
        m1 == merge_left(tagged, dry_df, DryFill)
        m2 == merge_left(m1, extreme_df, ExtremeFill)
        m3 == merge_left(m2, seasonal_df, SeasonalFill)
        alone(r) == \A i \in DOMAIN base : ~SameKey(base[i], r)
        extra == SelectSeq(lag_df, alone)
    IN merge_left(m3, lag_df, LagFill)
       \o [i \in DOMAIN extra |->
             extra[i] @@ [scenario |-> scenario] @@ DryFill @@ ExtremeFill
                      @@ SeasonalFill]

scenario_clean(scenario, data, dry_df, extreme_df, seasonal_df, lag_df) ==
    LET base == drop_duplicates(DeptYear(data))
        tagged == [i \in DOMAIN base |-> base[i] @@ [scenario |-> scenario]]
        m1 == merge_left(tagged, dry_df, DryFill)
        m2 == merge_left(m1, extreme_df, ExtremeFill)
        m3 == merge_left(m2, seasonal_df, SeasonalFill)
    IN merge_left(m3, lag_df, LagFill)

----------------------------------------------------------------------------
(* create_gold_datasets                                                    *)

historical_mask_all(row) == TRUE

historical_mask(row) == row.scenario = SCENARIO_HISTORICAL

future_mask_all(row) == TRUE

future_mask(row) == row.scenario # SCENARIO_HISTORICAL

training_mask(row, threshold) == row.year <= threshold

validation_mask_inclusive(row, threshold) == row.year >= threshold

validation_mask(row, threshold) == row.year > threshold

(* pd.merge(left, right, on=[nom_dep, year], how="inner"): for each left   *)
(* row in order, the right rows with the same key in order.  The two       *)
(* tables share no column but the keys.                                    *)
RECURSIVE merge_inner(_, _)
merge_inner(left, right) ==
    IF left = <<>> THEN <<>>
    ELSE LET n == Len(left)
             l == left[n]
             hit(r) == r.nom_dep = l.nom_dep /\ r.year = l.year
             matches == SelectSeq(right, hit)
         IN merge_inner(SubSeq(left, 1, n - 1), right)
            \o [j \in DOMAIN matches |-> l @@ matches[j]]

create_gold_datasets(yield, climate_full, threshold) ==
    LET historical_climate == SelectSeq(climate_full, historical_mask)
        future == SelectSeq(climate_full, future_mask)
        train_val_data == merge_inner(yield, historical_climate)
        is_train(r) == training_mask(r, threshold)
        is_val(r) == validation_mask(r, threshold)
    IN [training_data |-> SelectSeq(train_val_data, is_train),
        validation_data |-> SelectSeq(train_val_data, is_val),
        scenario_data |-> future]

----------------------------------------------------------------------------
(* Input universes.  Tables are drawn from small sets of rows; a bound     *)
(* caps the number of rows.                                                *)

MaxGoldYieldRows == 2
MaxGoldFeatureRows == 3

Departments == <<"Ain", "Aisne">>

(* The years on both sides of the split.                                   *)
Years == <<VALIDATION_THRESHOLD_YEAR, VALIDATION_THRESHOLD_YEAR + 1>>

Thresholds == {VALIDATION_THRESHOLD_YEAR, VALIDATION_THRESHOLD_YEAR + 1}

(* Sequences over a set, of length at most k, in any order, repeats        *)
(* allowed.                                                                *)
SeqsUpTo(S, k) == UNION {[1..n -> S] : n \in 0..k}

(* Subsequences of the sequence U of length at most k.                     *)
RECURSIVE SubTables(_, _)
SubTables(U, k) ==
    IF k = 0 \/ U = <<>> THEN {<<>>}
    ELSE SubTables(Tail(U), k)
         \cup {<<Head(U)>> \o t : t \in SubTables(Tail(U), k - 1)}

(* All pairs <<a, b>> of two sequences, a varying slowest.                 *)
RECURSIVE Cross(_, _)
Cross(A, B) ==
    IF A = <<>> THEN <<>>
    ELSE [j \in DOMAIN B |-> <<Head(A), B[j]>>] \o Cross(Tail(A), B)

YieldRow(d, y) ==
    [nom_dep |-> d, year |-> y, yield |-> 5, area |-> 10, production |-> 50]

YieldRows == {YieldRow(d, y) : d \in Range(Departments), y \in Range(Years)}

FeatureRow(s, d, y) ==
    [nom_dep |-> d, year |-> y, scenario |-> s,
     dry_periods_count |-> 0, max_dry_spell_days |-> 0,
     freeze_days_count |-> 0, heat_days_count |-> 0,
     heavy_rain_days_count |-> 0,
     total_precip_growing |-> NaN, total_precip_non_growing |-> 0,
     winter_precip_total |-> NaN]

GoldScenarios == <<SCENARIO_HISTORICAL, SCENARIO_SSP1_2_6>>

GoldFeatureUniverse ==
    LET K == Cross(GoldScenarios, Cross(Departments, Years))
    IN [i \in DOMAIN K |-> FeatureRow(K[i][1], K[i][2][1], K[i][2][2])]

----------------------------------------------------------------------------
(* SpecGold: create_gold_datasets applied to drawn arguments               *)

(* The state before a call: the arguments set, nothing computed yet.      *)
InitCall(at, yield, climate, slice, threshold) ==
    /\ pc = at
    /\ df_yield = yield
    /\ df_climate = climate
    /\ scenario_data = slice
    /\ validation_threshold = threshold
    /\ todo = <<>>
    /\ dry_periods_df = NoTable
    /\ extreme_events_df = NoTable
    /\ precip_lag_df = NoTable
    /\ seasonal_features_df = NoTable
    /\ scenario_features = <<>>
    /\ training_data = NoTable
    /\ validation_data = NoTable
    /\ future_climate = NoTable
    /\ dep_encoder = <<>>
    /\ X_train = NoTable
    /\ y_train = <<>>
    /\ X_test = NoTable
    /\ y_test = <<>>
    /\ X_train_columns = <<>>
    /\ scenario_inputs = <<>>
    /\ predict_columns = <<>>
    /\ reports = <<>>
    /\ report_columns = <<>>
    /\ df_yield_raw = NoTable
    /\ df_climate_raw = NoTable
    /\ yield_raw_columns = {}
    /\ climate_raw_columns = {}
    /\ mlflow_runs = <<>>
    /\ raised = <<>>

InitGold ==
    \E yield \in SeqsUpTo(YieldRows, MaxGoldYieldRows) :
        \E features \in SubTables(GoldFeatureUniverse, MaxGoldFeatureRows) :
            \E threshold \in Thresholds :
                /\ InitCall("gold_call", yield, NoTable, NoTable, threshold)
                /\ climate_clean = features
                /\ model_types = <<>>

GoldCall ==
    /\ pc = "gold_call"
    /\ LET out == create_gold_datasets(df_yield, climate_clean, validation_threshold)
       IN /\ training_data' = out.training_data
          /\ validation_data' = out.validation_data
          /\ future_climate' = out.scenario_data
    /\ pc' = "gold_done"
    /\ UNCHANGED <<bronze_vars, train_vars, raised, input_vars, todo, scenario_data, dry_periods_df,
                   extreme_events_df, precip_lag_df, seasonal_features_df,
                   scenario_features, climate_clean, model_vars>>

NextGold == GoldCall

SpecGold == InitGold /\ [][NextGold]_vars

(* The rows of a table with their multiplicities.                          *)
Count(df, row) == Cardinality({i \in DOMAIN df : df[i] = row})

(* The inner join stated on index pairs: one joined row per pair of a      *)
(* yield row and a historical feature row with the same key.               *)
JoinPairs ==
    {p \in (DOMAIN df_yield) \X (DOMAIN climate_clean) :
        /\ climate_clean[p[2]].scenario = SCENARIO_HISTORICAL
        /\ SameKey(df_yield[p[1]], climate_clean[p[2]])}

\* C1: after create_gold_datasets every training row has year <= threshold,
\* every validation row has year > threshold, and every row of the inner
\* join of yield and historical features is in exactly one of the two tables
\* (as many rows in the two tables together as joined pairs, none in both).
C1_SplitPartitions ==
    pc = "gold_done" =>
        /\ \A i \in DOMAIN training_data :
              training_data[i].year <= validation_threshold
        /\ \A i \in DOMAIN validation_data :
              validation_data[i].year > validation_threshold
        /\ Len(training_data) + Len(validation_data) = Cardinality(JoinPairs)
        /\ \A p \in JoinPairs :
              LET row == df_yield[p[1]] @@ climate_clean[p[2]]
              IN (row \in Range(training_data)) # (row \in Range(validation_data))

C1_Witness ==
    /\ pc = "gold_done"
    /\ \E i \in DOMAIN training_data :
          training_data[i].year = validation_threshold
    /\ validation_data # <<>>

\* C3: the train/validation table holds a row for (department, year) exactly
\* when yield_clean has a row for the pair and the historical feature table
\* has a row for the pair; no row of another scenario is joined to yield.
C3_InnerJoinOnHistorical ==
    pc = "gold_done" =>
        LET joined == Range(training_data) \cup Range(validation_data)
        IN /\ \A d \in Range(Departments), y \in Range(Years) :
                 (\E r \in joined : r.nom_dep = d /\ r.year = y)
                 <=> /\ \E i \in DOMAIN df_yield :
                           df_yield[i].nom_dep = d /\ df_yield[i].year = y
                     /\ \E j \in DOMAIN climate_clean :
                           /\ climate_clean[j].scenario = SCENARIO_HISTORICAL
                           /\ climate_clean[j].nom_dep = d
                           /\ climate_clean[j].year = y
           /\ \A r \in joined : r.scenario = SCENARIO_HISTORICAL

C3_Witness ==
    /\ pc = "gold_done"
    /\ training_data # <<>>
    /\ \E i \in DOMAIN df_yield, j \in DOMAIN climate_clean :
          /\ climate_clean[j].scenario # SCENARIO_HISTORICAL
          /\ SameKey(df_yield[i], climate_clean[j])
          /\ \A k \in DOMAIN climate_clean :
                climate_clean[k].scenario = SCENARIO_HISTORICAL
                => ~SameKey(df_yield[i], climate_clean[k])

\* C4: the future_scenarios table is the feature rows whose scenario is not
\* historical, each as often as in the feature table and unchanged: no
\* historical row, no non-historical row omitted, nothing taken from yield.
C4_FutureIsNonHistorical ==
    pc = "gold_done" =>
        /\ \A i \in DOMAIN future_climate :
              /\ future_climate[i].scenario # SCENARIO_HISTORICAL
              /\ future_climate[i] \in Range(climate_clean)
        /\ \A j \in DOMAIN climate_clean :
              climate_clean[j].scenario # SCENARIO_HISTORICAL
              => Count(future_climate, climate_clean[j])
                 = Count(climate_clean, climate_clean[j])

C4_Witness ==
    /\ pc = "gold_done"
    /\ future_climate # <<>>
    /\ Len(future_climate) < Len(climate_clean)
    /\ \E i \in DOMAIN df_yield, j \in DOMAIN future_climate :
          SameKey(df_yield[i], future_climate[j])

----------------------------------------------------------------------------
(* SpecDry: dry_periods applied to drawn single-scenario slices.  A slice  *)
(* is a series of daily records on consecutive days: the first c1 records  *)
(* are the last days of December of the first year for the first           *)
(* department, the next ones the first days of January of the next year    *)
(* for the same department, the rest the first days of January for the     *)
(* second department.  The series is every pattern of dry and wet days up  *)
(* to MaxDryDays records, and two runs of MIN_DRY_SPELL_DAYS - 1 ..        *)
(* MIN_DRY_SPELL_DAYS + 1 dry days with one wet day between them.  The     *)
(* records come in date order or shuffled.                                 *)

MaxDryDays == 8

Date(y, m, d) == y * 10000 + m * 100 + d

DayRow(s, d, t, tmax, p) ==
    [scenario |-> s, nom_dep |-> d, year |-> t \div 10000, time |-> t,
     temp_max |-> tmax, precip |-> p]

(* A dry day, and a day at the threshold, which is not dry.                *)
DryPrecip == {0, DRY_DAY_PRECIP_THRESHOLD_MM}

MildTemp == FREEZE_THRESHOLD_KELVIN + 1000

Block(n) == [i \in 1..n |-> 0]

BlockPatterns ==
    {Block(a) \o <<DRY_DAY_PRECIP_THRESHOLD_MM>> \o Block(b) :
        a, b \in (MIN_DRY_SPELL_DAYS - 1)..(MIN_DRY_SPELL_DAYS + 1)}

DryPatterns == SeqsUpTo(DryPrecip, MaxDryDays) \cup BlockPatterns

DrySeries(pattern, c1, c2) ==
    [i \in DOMAIN pattern |->
        IF i <= c1
        THEN DayRow(SCENARIO_HISTORICAL, Departments[1],
                    Date(Years[1], 12, 31 - c1 + i), MildTemp, pattern[i])
        ELSE IF i <= c2
        THEN DayRow(SCENARIO_HISTORICAL, Departments[1],
                    Date(Years[2], 1, i - c1), MildTemp, pattern[i])
        ELSE DayRow(SCENARIO_HISTORICAL, Departments[2],
                    Date(Years[2], 1, i - c2), MildTemp, pattern[i])]

(* The rows at the odd places, then the rows at the even places.           *)
Shuffle(df) ==
    LET n == Len(df)
        odd == (n + 1) \div 2
    IN [k \in 1..n |-> IF k <= odd THEN df[2 * k - 1] ELSE df[2 * (k - odd)]]

InitDry ==
    \E p \in DryPatterns :
        \E c1 \in 0..Len(p) :
            \E c2 \in c1..Len(p) :
                \E slice \in {DrySeries(p, c1, c2), Shuffle(DrySeries(p, c1, c2))} :
                    /\ InitCall("dry_call", NoTable, NoTable, slice,
                                VALIDATION_THRESHOLD_YEAR)
                    /\ climate_clean = NoTable /\ model_types = <<>>

DryCall ==
    /\ pc = "dry_call"
    /\ dry_periods_df' = dry_periods(scenario_data, MIN_DRY_SPELL_DAYS)
    /\ pc' = "dry_done"
    /\ UNCHANGED <<bronze_vars, train_vars, raised, input_vars, todo, scenario_data, extreme_events_df,
                   precip_lag_df, seasonal_features_df, scenario_features,
                   climate_clean, gold_vars, model_vars>>

NextDry == DryCall

SpecDry == InitDry /\ [][NextDry]_vars

(* The runs of a department and year, stated on the dates of the slice.    *)
(* The dates of the department are its series.  A run is a stretch of the  *)
(* series, from a dry day of the year to a later one, with only dry days   *)
(* of the year in it, and that cannot be extended: any other dry day of    *)
(* the year is separated from it by a day of the series that is not one.   *)
TimesOf(data, d) == {r.time : r \in {q \in Range(data) : q.nom_dep = d}}

DryTimes(data, d, y) ==
    {r.time : r \in {q \in Range(data) :
                        /\ q.nom_dep = d
                        /\ q.year = y
                        /\ q.precip # NaN
                        /\ q.precip < 10}}

Runs(data, d, y) ==
    LET T == TimesOf(data, d)
        dry == DryTimes(data, d, y)
    IN {p \in dry \X dry :
          /\ p[1] <= p[2]
          /\ \A t \in T : (p[1] <= t /\ t <= p[2]) => t \in dry
          /\ \A t \in dry : t < p[1] => \E u \in T \ dry : t < u /\ u < p[1]
          /\ \A t \in dry : t > p[2] => \E u \in T \ dry : p[2] < u /\ u < t}

RunLength(data, d, p) ==
    Cardinality({t \in TimesOf(data, d) : p[1] <= t /\ t <= p[2]})

LongRuns(data, d, y) == {p \in Runs(data, d, y) : RunLength(data, d, p) >= 7}

LongestRun(data, d, y) ==
    IF Runs(data, d, y) = {} THEN 0
    ELSE Max({RunLength(data, d, p) : p \in Runs(data, d, y)})

\* C7: for each (department, year) of the slice dry_periods returns
\* dry_periods_count = the number of maximal runs of consecutive dry days
\* (precip < 0.1) of that year that are at least 7 days long, and
\* max_dry_spell_days = the length of the longest run of any length; a year
\* whose only run has 7 days gets 1 and 7, one whose only run has 6 days
\* gets 0 and 6.
C7_DryRuns ==
    pc = "dry_done" =>
        /\ \A r \in Range(scenario_data) :
              \E i \in DOMAIN dry_periods_df : SameKey(dry_periods_df[i], r)
        /\ \A i \in DOMAIN dry_periods_df :
              LET row == dry_periods_df[i]
                  runs == Runs(scenario_data, row.nom_dep, row.year)
              IN /\ row.dry_periods_count
                      = Cardinality(LongRuns(scenario_data, row.nom_dep, row.year))
                 /\ row.max_dry_spell_days
                      = LongestRun(scenario_data, row.nom_dep, row.year)
                 /\ \A n \in {6, 7} :
                       (\E p \in runs :
                           runs = {p} /\ RunLength(scenario_data, row.nom_dep, p) = n)
                       => /\ row.dry_periods_count = (IF n = 7 THEN 1 ELSE 0)
                          /\ row.max_dry_spell_days = n

C7_Witness ==
    /\ pc = "dry_done"
    /\ \E i, j \in DOMAIN dry_periods_df :
          /\ dry_periods_df[i].dry_periods_count = 1
          /\ dry_periods_df[i].max_dry_spell_days = 7
          /\ Cardinality(Runs(scenario_data, dry_periods_df[i].nom_dep,
                              dry_periods_df[i].year)) = 1
          /\ dry_periods_df[j].dry_periods_count = 0
          /\ dry_periods_df[j].max_dry_spell_days = 6

----------------------------------------------------------------------------
(* SpecExtreme: extreme_temperatures_and_rain applied to drawn slices of   *)
(* at most MaxExtremeRows daily records, with temperatures and             *)
(* precipitation at and next to the thresholds.                            *)

MaxExtremeRows == 3

ExtremeKeys ==
    <<<<Departments[1], Date(Years[1], 6, 1)>>,
      <<Departments[1], Date(Years[1], 6, 2)>>,
      <<Departments[1], Date(Years[1], 6, 3)>>,
      <<Departments[1], Date(Years[2], 6, 1)>>,
      <<Departments[2], Date(Years[1], 6, 1)>>,
      <<Departments[2], Date(Years[1], 6, 2)>>>>

ExtremeTemps ==
    {FREEZE_THRESHOLD_KELVIN - 1, FREEZE_THRESHOLD_KELVIN,
     HEAT_THRESHOLD_KELVIN, HEAT_THRESHOLD_KELVIN + 1}

ExtremePrecip == {HEAVY_RAIN_THRESHOLD_MM, HEAVY_RAIN_THRESHOLD_MM + 1}

InitExtreme ==
    \E keys \in SubTables(ExtremeKeys, MaxExtremeRows) :
        \E tmax \in [DOMAIN keys -> ExtremeTemps] :
            \E p \in [DOMAIN keys -> ExtremePrecip] :
                LET rows == [i \in DOMAIN keys |->
                               DayRow(SCENARIO_HISTORICAL, keys[i][1],
                                      keys[i][2], tmax[i], p[i])]
                IN \E slice \in {rows, Shuffle(rows)} :
                      /\ InitCall("extreme_call", NoTable, NoTable, slice,
                                  VALIDATION_THRESHOLD_YEAR)
                      /\ climate_clean = NoTable /\ model_types = <<>>

ExtremeCall ==
    /\ pc = "extreme_call"
    /\ extreme_events_df' = extreme_temperatures_and_rain(scenario_data)
    /\ pc' = "extreme_done"
    /\ UNCHANGED <<bronze_vars, train_vars, raised, input_vars, todo, scenario_data, dry_periods_df,
                   precip_lag_df, seasonal_features_df, scenario_features,
                   climate_clean, gold_vars, model_vars>>

NextExtreme == ExtremeCall

SpecExtreme == InitExtreme /\ [][NextExtreme]_vars

DaysOf(data, d, y) == {r \in Range(data) : r.nom_dep = d /\ r.year = y}

\* C8: for each (department, year) of the slice the result has one row, and
\* its freeze_days_count, heat_days_count and heavy_rain_days_count are the
\* numbers (naturals) of the pair's days with temp_max < 273.15,
\* temp_max > 303.15 and precip > 20; a day at a threshold is not counted and
\* a pair's single day beyond a threshold is counted once.
C8_ExtremeCounts ==
    pc = "extreme_done" =>
        /\ \A r \in Range(scenario_data) :
              Cardinality({i \in DOMAIN extreme_events_df :
                              SameKey(extreme_events_df[i], r)}) = 1
        /\ \A i \in DOMAIN extreme_events_df :
              LET row == extreme_events_df[i]
                  days == DaysOf(scenario_data, row.nom_dep, row.year)
              IN /\ days # {}
                 /\ row.freeze_days_count \in Nat
                 /\ row.heat_days_count \in Nat
                 /\ row.heavy_rain_days_count \in Nat
                 /\ row.freeze_days_count
                      = Cardinality({r \in days : r.temp_max < 27315})
                 /\ row.heat_days_count
                      = Cardinality({r \in days : r.temp_max > 30315})
                 /\ row.heavy_rain_days_count
                      = Cardinality({r \in days : r.precip > 2000})
                 /\ \A r \in days :
                       days = {r} =>
                          /\ r.temp_max = 27315 => row.freeze_days_count = 0
                          /\ r.temp_max = 27314 => row.freeze_days_count = 1
                          /\ r.temp_max = 30315 => row.heat_days_count = 0
                          /\ r.temp_max = 30316 => row.heat_days_count = 1
                          /\ r.precip = 2000 => row.heavy_rain_days_count = 0
                          /\ r.precip = 2001 => row.heavy_rain_days_count = 1

C8_Witness ==
    /\ pc = "extreme_done"
    /\ \E i, j \in DOMAIN extreme_events_df :
          /\ extreme_events_df[i].freeze_days_count = 2
          /\ extreme_events_df[i].heavy_rain_days_count = 1
          /\ Cardinality(DaysOf(scenario_data, extreme_events_df[i].nom_dep,
                                extreme_events_df[i].year)) = 3
          /\ extreme_events_df[j].heat_days_count = 0
          /\ \E r \in DaysOf(scenario_data, extreme_events_df[j].nom_dep,
                             extreme_events_df[j].year) : r.temp_max = 30315

----------------------------------------------------------------------------
(* SpecLag: precipitation_lag applied to drawn slices of at most           *)
(* MaxLagRows daily records, in the months on both sides of the winter     *)
(* months.                                                                 *)

MaxLagRows == 3

LagMonths == <<1, 2, 3, 8, 9, 12>>

LagKeys == Cross(Departments, Cross(Years, LagMonths))

LagPrecip == {0, 500}

InitLag ==
    \E keys \in SubTables(LagKeys, MaxLagRows) \ {<<>>} :
        \E p \in [DOMAIN keys -> LagPrecip] :
            LET rows == [i \in DOMAIN keys |->
                           DayRow(SCENARIO_HISTORICAL, keys[i][1],
                                  Date(keys[i][2][1], keys[i][2][2], 15),
                                  MildTemp, p[i])]
            IN \E slice \in {rows, Shuffle(rows)} :
                  /\ InitCall("lag_call", NoTable, NoTable, slice,
                              VALIDATION_THRESHOLD_YEAR)
                  /\ climate_clean = NoTable /\ model_types = <<>>

LagCall ==
    /\ pc = "lag_call"
    /\ precip_lag_df' = precipitation_lag(scenario_data)
    /\ pc' = "lag_done"
    /\ UNCHANGED <<bronze_vars, train_vars, raised, input_vars, todo, scenario_data, dry_periods_df,
                   extreme_events_df, seasonal_features_df, scenario_features,
                   climate_clean, gold_vars, model_vars>>

NextLag == LagCall

SpecLag == InitLag /\ [][NextLag]_vars

(* The days of department d that precede the growing season of year g:     *)
(* September to December of g - 1 and January and February of g.           *)
WinterDays(data, d, g) ==
    {r \in Range(data) :
        /\ r.nom_dep = d
        /\ \/ r.year = g - 1 /\ month(r.time) \in 9..12
           \/ r.year = g /\ month(r.time) \in 1..2}

WinterTotal(data, d, g) ==
    SumSet({<<r.time, r.precip>> :
               r \in {q \in WinterDays(data, d, g) : q.precip # NaN}})

GrowingYears == {Years[1], Years[2], Years[2] + 1}

\* C9: precipitation_lag returns, for department D and year G, the sum of
\* D's precipitation over the days of months 9-12 of year G-1 and months 1-2
\* of year G, one row per (D, G) that has such a day and no other row: a
\* December day counts for the next year, a January day for its own year, a
\* day of months 3-8 for no year.
C9_WinterAttribution ==
    pc = "lag_done" =>
        /\ \A i \in DOMAIN precip_lag_df :
              /\ precip_lag_df[i].nom_dep \in Range(Departments)
              /\ precip_lag_df[i].year \in GrowingYears
        /\ \A d \in Range(Departments), g \in GrowingYears :
              LET rows == {i \in DOMAIN precip_lag_df :
                              /\ precip_lag_df[i].nom_dep = d
                              /\ precip_lag_df[i].year = g}
              IN IF WinterDays(scenario_data, d, g) = {} THEN rows = {}
                 ELSE /\ Cardinality(rows) = 1
                      /\ \A i \in rows :
                            precip_lag_df[i].winter_precip_total
                               = WinterTotal(scenario_data, d, g)

C9_Witness ==
    /\ pc = "lag_done"
    /\ \E i \in DOMAIN precip_lag_df :
          /\ precip_lag_df[i].year = Years[2]
          /\ precip_lag_df[i].winter_precip_total = 1000
          /\ \E r \in Range(scenario_data) :
                r.year = Years[1] /\ month(r.time) = 12 /\ r.precip = 500
          /\ \E r \in Range(scenario_data) :
                r.year = Years[2] /\ month(r.time) = 1 /\ r.precip = 500
          /\ \E r \in Range(scenario_data) :
                r.year = Years[2] /\ month(r.time) \in 3..8 /\ r.precip = 500

----------------------------------------------------------------------------
(* The run of the whole program: silver_to_gold, then load_training_data,  *)
(* then prediction_pipeline on the fitted model.                           *)

(* Column names of gold.py and of the scenario tags that                   *)
(* prediction_utils.py imports.                                            *)
GOLD_NOM_DEP == "nom_dep"
GOLD_YEAR == "year"
GOLD_YIELD == "yield"
GOLD_SCENARIO == "scenario"
TARGET_COLUMN == GOLD_YIELD
XGBOOST == "xgboost"
SCENARIO_126 == SCENARIO_SSP1_2_6
SCENARIO_245 == SCENARIO_SSP2_4_5
SCENARIO_585 == SCENARIO_SSP5_8_5

(* The columns of the silver yield table.                                  *)
SILVER_YIELD_COLUMNS == <<"nom_dep", "year", "yield", "area", "production">>

(* The columns of scenario_clean, in the order the merges add them; the    *)
(* statistics of temp_mean are left out as they are in the rows.           *)
CLIMATE_CLEAN_COLUMNS ==
    <<"nom_dep", "year", "scenario", "dry_periods_count", "max_dry_spell_days",
      "freeze_days_count", "heat_days_count", "heavy_rain_days_count",
      "total_precip_growing", "total_precip_non_growing",
      "winter_precip_total">>

(* DataFrame.drop(columns = dropped), on the column index and on a row.    *)
drop_columns(columns, dropped) ==
    LET kept(c) == c \notin dropped
    IN SelectSeq(columns, kept)

drop(row, dropped) == [c \in (DOMAIN row) \ dropped |-> row[c]]

(* The columns of pd.merge(left, right, on = [nom_dep, year]).             *)
merge_columns(left, right) ==
    left \o drop_columns(right, {GOLD_NOM_DEP, GOLD_YEAR})

(* df_climate[df_climate[scenario] == scenario]                            *)
scenario_slice_all(df, scenario) == df

scenario_slice(df, scenario) ==
    LET keep(r) == r.scenario = scenario
    IN SelectSeq(df, keep)

(* pd.concat(tables, ignore_index = True) of a non-empty list.             *)
RECURSIVE concat(_)
concat(tables) ==
    IF tables = <<>> THEN <<>> ELSE Head(tables) \o concat(Tail(tables))

(* LabelEncoder: classes_ are the sorted distinct labels, transform gives  *)
(* the place of a label among them, counted from 0.                        *)
fit_every_name(labels) == <<"Ain", "Aisne">>

fit(labels) ==
    LET present(n) == n \in Range(labels)
    IN SelectSeq(SortedNames, present)

seen(classes, df) == \A i \in DOMAIN df : df[i].nom_dep \in Range(classes)

transform(classes, label) ==
    (CHOOSE k \in DOMAIN classes : classes[k] = label) - 1

encode(classes, df) ==
    [i \in DOMAIN df |->
        [df[i] EXCEPT !.nom_dep = transform(classes, df[i].nom_dep)]]

(* The silver tables the run starts from: at most MaxYieldRows yield rows  *)
(* and at most MaxClimateRows daily records, one per (scenario,            *)
(* department, day) and in the order of these keys, as the pivot of the    *)
(* silver stage leaves them.  A day is cold and dry, or hot and wet.       *)
MaxYieldRows == 1
MaxClimateRows == 2

YieldUniverse ==
    LET K == Cross(Departments, Years)
    IN [i \in DOMAIN K |-> YieldRow(K[i][1], K[i][2])]

ClimateDates ==
    <<Date(Years[1], 6, 15), Date(Years[1], 12, 15),
      Date(Years[2], 1, 15), Date(Years[2], 6, 15)>>

(* A tag of the raw data that is none of the three named ones.            *)
OtherScenario == "ssp3_7_0"

ClimateKeys ==
    Cross(GoldScenarios, Cross(Departments, ClimateDates))
    \o << <<OtherScenario, <<Departments[1], ClimateDates[1]>> >> >>

ColdDryDay == [temp_max |-> FREEZE_THRESHOLD_KELVIN - 500, precip |-> 0]

HotWetDay ==
    [temp_max |-> HEAT_THRESHOLD_KELVIN + 500,
     precip |-> HEAVY_RAIN_THRESHOLD_MM + 500]

DayKinds == {ColdDryDay, HotWetDay}

ClimateTable(keys, kinds) ==
    [i \in DOMAIN keys |->
        DayRow(keys[i][1], keys[i][2][1], keys[i][2][2],
               kinds[i].temp_max, kinds[i].precip)]

Init ==
    \E yield \in SubTables(YieldUniverse, MaxYieldRows) :
        \E keys \in SubTables(ClimateKeys, MaxClimateRows) :
            \E kinds \in [DOMAIN keys -> DayKinds] :
                /\ InitCall("start", yield, ClimateTable(keys, kinds), NoTable,
                            VALIDATION_THRESHOLD_YEAR)
                /\ climate_clean = NoTable
                /\ model_types = <<XGBOOST>>

(* silver_to_gold up to the loop: the scenarios in order of appearance.    *)
ReadSilver ==
    /\ pc = "start"
    /\ todo' = drop_duplicates(Column(df_climate, "scenario"))
    /\ pc' = "loop"
    /\ UNCHANGED <<bronze_vars, train_vars, raised, input_vars, scenario_data, dry_periods_df, extreme_events_df,
                   precip_lag_df, seasonal_features_df, scenario_features,
                   climate_clean, gold_vars, model_vars>>

(* One iteration of the loop over the scenarios.                           *)
LoopIteration ==
    /\ pc = "loop"
    /\ todo # <<>>
    /\ LET scenario == Head(todo)
           data == scenario_slice(df_climate, scenario)
           dry_df == dry_periods(data, MIN_DRY_SPELL_DAYS)
           extreme_df == extreme_temperatures_and_rain(data)
           lag_df == precipitation_lag(data)
           seasonal_df == seasonal_temperatures_and_rain(data)
       IN /\ scenario_data' = data
          /\ dry_periods_df' = dry_df
          /\ extreme_events_df' = extreme_df
          /\ precip_lag_df' = lag_df
          /\ seasonal_features_df' = seasonal_df
          /\ scenario_features' =
                Append(scenario_features,
                       scenario_clean(scenario, data, dry_df, extreme_df,
                                      seasonal_df, lag_df))
    /\ todo' = Tail(todo)
    /\ UNCHANGED <<pc, bronze_vars, train_vars, raised, input_vars, climate_clean, gold_vars, model_vars>>

(* After the loop: the concatenation, the split and the four writes.       *)
(* pd.concat raises on an empty list, and nothing is written then.         *)
ConcatAndWrite ==
    /\ pc = "loop"
    /\ todo = <<>>
    /\ IF scenario_features = <<>>
       THEN /\ pc' = "error"
            /\ raised' = <<"ValueError", "No objects to concatenate">>
            /\ UNCHANGED <<climate_clean, gold_vars>>
       ELSE LET full == concat(scenario_features)
                gold == create_gold_datasets(df_yield, full,
                                             VALIDATION_THRESHOLD_YEAR)
            IN /\ climate_clean' = full
               /\ training_data' = gold.training_data
               /\ validation_data' = gold.validation_data
               /\ future_climate' = gold.scenario_data
               /\ pc' = "gold_written"
               /\ UNCHANGED raised
    /\ UNCHANGED <<bronze_vars, train_vars, input_vars, todo, scenario_data, dry_periods_df,
                   extreme_events_df, precip_lag_df, seasonal_features_df,
                   scenario_features, model_vars>>

(* load_training_data                                                      *)
LoadTrainingData ==
    /\ pc = "gold_written"
    /\ LET all_deps == Column(training_data, GOLD_NOM_DEP)
                          \o Column(validation_data, GOLD_NOM_DEP)
           classes == fit(all_deps)
           train_data == encode(classes, training_data)
           test_data == encode(classes, validation_data)
       IN /\ dep_encoder' = classes
          /\ X_train' = [i \in DOMAIN train_data |->
                            drop(train_data[i], {TARGET_COLUMN})]
          /\ y_train' = Column(train_data, TARGET_COLUMN)
          /\ X_test' = [i \in DOMAIN test_data |->
                           drop(test_data[i], {TARGET_COLUMN})]
          /\ y_test' = Column(test_data, TARGET_COLUMN)
          /\ X_train_columns' =
                drop_columns(merge_columns(SILVER_YIELD_COLUMNS,
                                           CLIMATE_CLEAN_COLUMNS),
                             {TARGET_COLUMN})
    /\ pc' = "loaded"
    /\ UNCHANGED <<bronze_vars, train_vars, raised, input_vars, todo, scenario_data, dry_periods_df,
                   extreme_events_df, precip_lag_df, seasonal_features_df,
                   scenario_features, climate_clean, gold_vars,
                   scenario_inputs, predict_columns, reports, report_columns>>

(* prepare_prediction_data: the three scenarios without their tag, the     *)
(* department encoded.                                                     *)
prediction_tags == <<SCENARIO_126, SCENARIO_245, SCENARIO_585>>

scenario_rows(scenarii, tag) ==
    LET rows == scenario_slice(scenarii, tag)
    IN [i \in DOMAIN rows |-> drop(rows[i], {GOLD_SCENARIO})]

prepare_prediction_data(scenarii, classes) ==
    [k \in DOMAIN prediction_tags |->
        encode(classes, scenario_rows(scenarii, prediction_tags[k]))]

(* transform raises on a department the encoder was not fitted on.         *)
all_seen(scenarii, classes) ==
    \A k \in DOMAIN prediction_tags :
        seen(classes, scenario_rows(scenarii, prediction_tags[k]))

(* LabelEncoder.inverse_transform                                          *)
inverse_transform_first(classes, code) == classes[1]

inverse_transform(classes, code) == classes[code + 1]

(* prepare_dashboard_data: the prediction attached, the department         *)
(* decoded, the columns of DASHBOARD_COLUMNS selected.                     *)
DASHBOARD_YIELD == "predicted_yield"

DASHBOARD_COLUMNS_SORTED == <<"nom_dep", DASHBOARD_YIELD, "year">>

DASHBOARD_COLUMNS == <<"nom_dep", "year", DASHBOARD_YIELD>>

prepare_dashboard_data(scenario, predictions, classes) ==
    [i \in DOMAIN scenario |->
        LET dashboard_data ==
                [scenario[i] EXCEPT
                    !.nom_dep = inverse_transform(classes, scenario[i].nom_dep)]
                @@ [predicted_yield |-> predictions[i]]
        IN [c \in Range(DASHBOARD_COLUMNS) |-> dashboard_data[c]]]

(* The values model.predict may return; the model is an external           *)
(* collaborator that gives one value per row.                              *)
PredictedYields == {4, 6}

(* The statements of prediction_pipeline and of train_xgboost_model that   *)
(* touch the model, the MLflow run or a file, in the order of the code.    *)
(* arg is the scenario (1..3) of a transform, predict or to_csv and the    *)
(* metric (1..5: rmse, mape, mae, r2, std) of a log_metric.                *)
Statement(op, arg) == [op |-> op, arg |-> arg]

prediction_pipeline_per_scenario ==
    <<Statement("transform", 1), Statement("predict", 1), Statement("to_csv", 1),
      Statement("transform", 2), Statement("predict", 2), Statement("to_csv", 2),
      Statement("transform", 3), Statement("predict", 3), Statement("to_csv", 3)>>

prediction_pipeline ==
    <<Statement("transform", 1), Statement("transform", 2),
      Statement("transform", 3), Statement("predict", 1),
      Statement("predict", 2), Statement("predict", 3),
      Statement("to_csv", 1), Statement("to_csv", 2), Statement("to_csv", 3)>>

train_xgboost_model_refit_first ==
    <<Statement("fit_train", 0), Statement("fit_full", 0),
      Statement("predict_test", 0), Statement("log_params", 0),
      Statement("log_metric", 1), Statement("log_metric", 2),
      Statement("log_metric", 3), Statement("log_metric", 4),
      Statement("log_metric", 5), Statement("log_model", 0)>>
    \o prediction_pipeline \o <<Statement("log_artifact", 0)>>

train_xgboost_model ==
    <<Statement("fit_train", 0), Statement("predict_test", 0),
      Statement("log_params", 0), Statement("log_metric", 1),
      Statement("log_metric", 2), Statement("log_metric", 3),
      Statement("log_metric", 4), Statement("log_metric", 5),
      Statement("log_model", 0), Statement("fit_full", 0)>>
    \o prediction_pipeline \o <<Statement("log_artifact", 0)>>

(* The tables the model was last fitted on when statement i starts.        *)
fitted_on(statements, i) ==
    LET fits == {j \in 1..(i - 1) :
                    statements[j].op \in {"fit_train", "fit_full"}}
    IN IF fits = {} THEN {}
       ELSE IF statements[Max(fits)].op = "fit_train" THEN {"X_train"}
       ELSE {"X_train", "X_test"}

(* The tables the model that predicted y_pred, which the metrics are       *)
(* computed from, had been fitted on.                                      *)
y_pred_of(statements, i) ==
    LET calls == {j \in 1..(i - 1) : statements[j].op = "predict_test"}
    IN IF calls = {} THEN {} ELSE fitted_on(statements, Max(calls))

(* The first statement that raises: the transform of a scenario with a     *)
(* department the encoder was not fitted on; 0 when none does.             *)
first_raise(statements, scenarii, classes) ==
    LET raising == {i \in DOMAIN statements :
                       /\ statements[i].op = "transform"
                       /\ ~seen(classes,
                                scenario_rows(scenarii,
                                    prediction_tags[statements[i].arg]))}
    IN IF raising = {} THEN 0 ELSE CHOOSE i \in raising :
                                       \A j \in raising : i <= j

(* The statements executed, each with the state of the model it ran in.    *)
executed(statements, halt) ==
    [i \in 1..(IF halt = 0 THEN Len(statements) ELSE halt - 1) |->
        [op |-> statements[i].op, arg |-> statements[i].arg,
         model |-> fitted_on(statements, i),
         y_pred |-> y_pred_of(statements, i)]]

(* The scenarios of the to_csv statements executed, in order.              *)
written(steps) ==
    LET to_csv(e) == e.op = "to_csv"
        files == SelectSeq(steps, to_csv)
    IN [j \in DOMAIN files |-> files[j].arg]

predicted(steps) ==
    LET predict(e) == e.op = "predict"
    IN SelectSeq(steps, predict)

(* The test of train_and_predict on the model type.                        *)
is_supported_any(model_type) == TRUE

is_supported(model_type) == model_type = XGBOOST

(* train_and_predict for the next model type of train_models; for xgboost  *)
(* this is train_xgboost_model with prediction_pipeline inside it.         *)
TrainAndPredict ==
    /\ pc \in {"loaded", "predicted"}
    /\ model_types # <<>>
    /\ LET model_type == Head(model_types)
       IN IF ~is_supported(model_type)
          THEN /\ raised' = <<"ValueError", "Unsupported model type: ", model_type>>
               /\ pc' = "error"
               /\ UNCHANGED <<mlflow_runs, scenario_inputs, predict_columns,
                              reports, report_columns>>
          ELSE LET halt == first_raise(train_xgboost_model, future_climate,
                                       dep_encoder)
                   steps == executed(train_xgboost_model, halt)
                   rows == [k \in DOMAIN prediction_tags |->
                              scenario_rows(future_climate, prediction_tags[k])]
                   files == written(steps)
               IN \E pred_1 \in [DOMAIN rows[1] -> PredictedYields] :
                  \E pred_2 \in [DOMAIN rows[2] -> PredictedYields] :
                  \E pred_3 \in [DOMAIN rows[3] -> PredictedYields] :
                     LET pred == <<pred_1, pred_2, pred_3>>
                     IN /\ mlflow_runs' =
                              Append(mlflow_runs,
                                     [model_type |-> model_type,
                                      steps |-> steps])
                        /\ reports' =
                              IF files = <<>> THEN reports
                              ELSE [j \in DOMAIN files |->
                                      prepare_dashboard_data(
                                          encode(dep_encoder, rows[files[j]]),
                                          pred[files[j]], dep_encoder)]
                        /\ report_columns' =
                              IF files = <<>> THEN report_columns
                              ELSE [j \in DOMAIN files |-> DASHBOARD_COLUMNS]
                        /\ predict_columns' =
                              IF predicted(steps) = <<>> THEN predict_columns
                              ELSE [j \in DOMAIN predicted(steps) |->
                                      drop_columns(
                                          drop_columns(CLIMATE_CLEAN_COLUMNS,
                                                       {GOLD_SCENARIO}),
                                          {GOLD_YEAR})]
                        /\ IF halt = 0
                           THEN /\ scenario_inputs' =
                                      prepare_prediction_data(future_climate,
                                                              dep_encoder)
                                /\ pc' = "predicted"
                                /\ UNCHANGED raised
                           ELSE /\ raised' =
                                      <<"ValueError",
                                        "y contains previously unseen labels">>
                                /\ pc' = "error"
                                /\ UNCHANGED scenario_inputs
    /\ model_types' = Tail(model_types)
    /\ UNCHANGED <<bronze_vars, input_vars, todo, scenario_data, dry_periods_df,
                   extreme_events_df, precip_lag_df, seasonal_features_df,
                   scenario_features, climate_clean, gold_vars, dep_encoder,
                   X_train, y_train, X_test, y_test, X_train_columns>>

Next ==
    \/ ReadSilver
    \/ LoopIteration
    \/ ConcatAndWrite
    \/ LoadTrainingData
    \/ TrainAndPredict

Spec == Init /\ [][Next]_vars

(* The daily records of one scenario, read off the silver table.           *)
SourceRows(S) ==
    LET tagged(r) == r.scenario = S
    IN SelectSeq(df_climate, tagged)

SeasonDays(data, d, y, name) ==
    {r \in DaysOf(data, d, y) :
        (name = "growing") <=> (month(r.time) \in 3..7)}

SeasonTotal(data, d, y, name) ==
    IF SeasonDays(data, d, y, name) = {} THEN NaN
    ELSE SumSet({<<r.time, r.precip>> : r \in SeasonDays(data, d, y, name)})

(* The feature row is the one the daily records of src, and no other       *)
(* record, give for the row's (department, year).                          *)
DerivedFrom(row, src) ==
    LET d == row.nom_dep
        y == row.year
        days == DaysOf(src, d, y)
    IN /\ days # {}
       /\ row.dry_periods_count = Cardinality(LongRuns(src, d, y))
       /\ row.max_dry_spell_days = LongestRun(src, d, y)
       /\ row.freeze_days_count = Cardinality({r \in days : r.temp_max < 27315})
       /\ row.heat_days_count = Cardinality({r \in days : r.temp_max > 30315})
       /\ row.heavy_rain_days_count = Cardinality({r \in days : r.precip > 2000})
       /\ row.total_precip_growing = SeasonTotal(src, d, y, "growing")
       /\ row.total_precip_non_growing = SeasonTotal(src, d, y, "non_growing")
       /\ row.winter_precip_total =
             (IF WinterDays(src, d, y) = {} THEN NaN ELSE WinterTotal(src, d, y))

\* C5: every feature row tagged with scenario S, in the list the loop builds
\* and in the concatenated table, belongs to a (department, year) that has a
\* daily record of scenario S, and each of its features is the value given by
\* the daily records whose scenario is S alone; the k-th table of the list
\* holds only rows tagged with the k-th scenario of the silver table.
C5_ScenarioIsolation ==
    /\ \A k \in DOMAIN scenario_features :
          \A i \in DOMAIN scenario_features[k] :
              LET row == scenario_features[k][i]
              IN /\ row.scenario
                      = drop_duplicates(Column(df_climate, "scenario"))[k]
                 /\ DerivedFrom(row, SourceRows(row.scenario))
    /\ \A i \in DOMAIN climate_clean :
          DerivedFrom(climate_clean[i], SourceRows(climate_clean[i].scenario))

C5_Witness ==
    /\ pc = "gold_written"
    /\ \E i, j \in DOMAIN climate_clean :
          /\ climate_clean[i].scenario = SCENARIO_HISTORICAL
          /\ climate_clean[j].scenario = SCENARIO_SSP1_2_6
          /\ SameKey(climate_clean[i], climate_clean[j])
          /\ climate_clean[i].freeze_days_count = 1
          /\ climate_clean[j].freeze_days_count = 0
          /\ climate_clean[i].heavy_rain_days_count = 0
          /\ climate_clean[j].heavy_rain_days_count = 1

\* C6: the merged feature table of the slice of one scenario has exactly one
\* row for each (department, year) that has a daily record in the slice and
\* no row for another pair; the row of a pair with no dry day has
\* dry_periods_count = 0 and max_dry_spell_days = 0, and the two columns are
\* never missing.
C6_OneRowPerPair ==
    scenario_features # <<>> =>
        LET merged == scenario_features[Len(scenario_features)]
        IN /\ \A r \in Range(scenario_data) :
                 Cardinality({i \in DOMAIN merged : SameKey(merged[i], r)}) = 1
           /\ \A i \in DOMAIN merged :
                 /\ \E r \in Range(scenario_data) : SameKey(r, merged[i])
                 /\ merged[i].dry_periods_count # NaN
                 /\ merged[i].max_dry_spell_days # NaN
                 /\ DryTimes(scenario_data, merged[i].nom_dep, merged[i].year) = {}
                       => /\ merged[i].dry_periods_count = 0
                          /\ merged[i].max_dry_spell_days = 0

C6_Witness ==
    /\ scenario_features # <<>>
    /\ LET merged == scenario_features[Len(scenario_features)]
       IN /\ Len(scenario_data) > Len(merged)
          /\ \E i \in DOMAIN merged :
                /\ DryTimes(scenario_data, merged[i].nom_dep, merged[i].year) = {}
                /\ merged[i].dry_periods_count = 0
                /\ merged[i].max_dry_spell_days = 0

\* C10: in the merged feature table of a slice, a (department, year) with no
\* day of the slice in months 9-12 of the previous year or months 1-2 of the
\* year has a missing winter_precip_total, never 0; a pair with such days has
\* their precipitation total, so 0 appears only when winter days exist and
\* sum to zero.  The same holds of the rows of the concatenated table.
C10_MissingWinterIsNotZero ==
    /\ scenario_features # <<>> =>
          LET merged == scenario_features[Len(scenario_features)]
          IN \A i \in DOMAIN merged :
                LET d == merged[i].nom_dep
                    y == merged[i].year
                    winter == WinterDays(scenario_data, d, y)
                    total == merged[i].winter_precip_total
                IN /\ winter = {} => total = NaN /\ total # 0
                   /\ winter # {} => total = WinterTotal(scenario_data, d, y)
                   /\ total = 0 =>
                         /\ winter # {}
                         /\ \A r \in winter : r.precip = 0
    /\ \A i \in DOMAIN climate_clean :
          LET row == climate_clean[i]
              winter == WinterDays(SourceRows(row.scenario), row.nom_dep, row.year)
          IN /\ winter = {} => row.winter_precip_total = NaN
             /\ row.winter_precip_total = 0 =>
                   /\ winter # {}
                   /\ \A r \in winter : r.precip = 0

C10_Witness ==
    /\ scenario_features # <<>>
    /\ LET merged == scenario_features[Len(scenario_features)]
       IN \E i, j \in DOMAIN merged :
             /\ WinterDays(scenario_data, merged[i].nom_dep, merged[i].year) = {}
             /\ merged[i].winter_precip_total = NaN
             /\ WinterDays(scenario_data, merged[j].nom_dep, merged[j].year) # {}
             /\ merged[j].winter_precip_total = 0

\* C2: once prediction_pipeline has called predict, the columns passed to
\* predict for each scenario are, as a set, the columns of X_train, and year
\* is not among the columns of X_train.
C2_FeatureParity ==
    pc = "predicted" =>
        /\ \A k \in DOMAIN predict_columns :
              Range(predict_columns[k]) = Range(X_train_columns)
        /\ GOLD_YEAR \notin Range(X_train_columns)

----------------------------------------------------------------------------
(* SpecInference: train_models run on gold tables that silver_to_gold      *)
(* wrote from drawn yield rows and feature rows of two departments and of  *)
(* four scenario tags, one row of them in the year after the validation    *)
(* threshold, for every list of at most MaxModelTypes model types.         *)

MaxInferenceYieldRows == 2
MaxInferenceFeatureRows == 4
MaxModelTypes == 2

ModelTypes == {XGBOOST, "lightgbm"}

InferenceScenarios ==
    <<SCENARIO_HISTORICAL, SCENARIO_SSP1_2_6, SCENARIO_SSP2_4_5>>

(* The feature rows of the first year for the three tags and the two       *)
(* departments, one row of another tag, and one historical row of the      *)
(* year after the validation threshold.                                    *)
InferenceFeatureUniverse ==
    LET K == Cross(InferenceScenarios, Departments)
    IN [i \in DOMAIN K |-> FeatureRow(K[i][1], K[i][2], Years[1])]
       \o <<FeatureRow(OtherScenario, Departments[1], Years[1]),
            FeatureRow(SCENARIO_HISTORICAL, Departments[1], Years[2])>>

InitInference ==
    \E yield \in SubTables(YieldUniverse, MaxInferenceYieldRows) :
        \E features \in SubTables(InferenceFeatureUniverse,
                                  MaxInferenceFeatureRows) :
            \E types \in SeqsUpTo(ModelTypes, MaxModelTypes) :
                LET gold == create_gold_datasets(yield, features,
                                                 VALIDATION_THRESHOLD_YEAR)
                IN /\ pc = "gold_written"
                   /\ df_yield = yield
                   /\ df_climate = NoTable
                   /\ validation_threshold = VALIDATION_THRESHOLD_YEAR
                   /\ todo = <<>>
                   /\ scenario_data = NoTable
                   /\ dry_periods_df = NoTable
                   /\ extreme_events_df = NoTable
                   /\ precip_lag_df = NoTable
                   /\ seasonal_features_df = NoTable
                   /\ scenario_features = <<>>
                   /\ climate_clean = features
                   /\ training_data = gold.training_data
                   /\ validation_data = gold.validation_data
                   /\ future_climate = gold.scenario_data
                   /\ dep_encoder = <<>>
                   /\ X_train = NoTable
                   /\ y_train = <<>>
                   /\ X_test = NoTable
                   /\ y_test = <<>>
                   /\ X_train_columns = <<>>
                   /\ scenario_inputs = <<>>
                   /\ predict_columns = <<>>
                   /\ reports = <<>>
                   /\ report_columns = <<>>
                   /\ df_yield_raw = NoTable
                   /\ df_climate_raw = NoTable
                   /\ yield_raw_columns = {}
                   /\ climate_raw_columns = {}
                   /\ model_types = types
                   /\ mlflow_runs = <<>>
                   /\ raised = <<>>

NextInference ==
    \/ LoadTrainingData
    \/ TrainAndPredict

SpecInference == InitInference /\ [][NextInference]_vars

(* The departments the encoder is fitted on, and the rows of one tag of    *)
(* the future scenarios table, read off the gold tables.                   *)
FittedDepartments ==
    {r.nom_dep : r \in Range(training_data) \cup Range(validation_data)}

FutureRows(tag) ==
    LET tagged(r) == r.scenario = tag
    IN SelectSeq(future_climate, tagged)

NamedTags == {"ssp1_2_6", "ssp2_4_5", "ssp5_8_5"}

UnseenDepartment ==
    \E r \in Range(future_climate) :
        r.scenario \in NamedTags /\ r.nom_dep \notin FittedDepartments

Training == pc \in {"loaded", "predicted"} /\ model_types # <<>>

\* C16: after load_training_data the encoder holds exactly the departments
\* of the training and validation tables and no later step changes it; when
\* a row of one of the scenarios to predict carries a department outside that
\* set, the xgboost run ends with the ValueError of transform and leaves no
\* encoded scenario and no report; every code in an encoded scenario is the
\* code of the department of its own row.
C16_UnseenDepartmentRaises ==
    /\ [](pc \in {"loaded", "predicted", "error"}
            => Range(dep_encoder) = FittedDepartments)
    /\ [](\A k \in DOMAIN scenario_inputs :
            \A i \in DOMAIN scenario_inputs[k] :
                LET code == scenario_inputs[k][i].nom_dep
                IN /\ code \in 0..(Len(dep_encoder) - 1)
                   /\ dep_encoder[code + 1]
                         = FutureRows(prediction_tags[k])[i].nom_dep)
    /\ [][/\ pc # "gold_written" => dep_encoder' = dep_encoder
          /\ (Training /\ Head(model_types) = "xgboost" /\ UnseenDepartment)
                => /\ raised' = <<"ValueError",
                                  "y contains previously unseen labels">>
                   /\ pc' = "error"
                   /\ scenario_inputs' = scenario_inputs
                   /\ reports' = reports]_vars

C16_Witness ==
    /\ raised = <<"ValueError", "y contains previously unseen labels">>
    /\ dep_encoder = <<"Ain">>
    /\ \E r \in Range(future_climate) : r.nom_dep = "Aisne"
    /\ reports = <<>>

\* C17: for every department the encoder was fitted on, decoding its code
\* gives the department back, and the department of every row of a report
\* table is the department of the scenario row at the same place.
C17_DecodeEncode ==
    /\ \A k \in DOMAIN dep_encoder :
          inverse_transform(dep_encoder, transform(dep_encoder, dep_encoder[k]))
             = dep_encoder[k]
    /\ \A k \in DOMAIN reports :
          /\ Len(reports[k]) = Len(FutureRows(prediction_tags[k]))
          /\ \A i \in DOMAIN reports[k] :
                reports[k][i].nom_dep = FutureRows(prediction_tags[k])[i].nom_dep

C17_Witness ==
    /\ pc = "predicted"
    /\ dep_encoder = <<"Ain", "Aisne">>
    /\ \E k \in DOMAIN reports :
          \E i \in DOMAIN reports[k] :
              /\ reports[k][i].nom_dep = "Aisne"
              /\ scenario_inputs[k][i].nom_dep = 1

\* C18: every report table has the columns nom_dep, year, predicted_yield in
\* this order and no other, and one row for each row of the scenario it was
\* predicted from, in the same order and with the year of that row.
C18_ReportSchema ==
    /\ \A k \in DOMAIN report_columns :
          report_columns[k] = <<"nom_dep", "year", "predicted_yield">>
    /\ \A k \in DOMAIN reports :
          LET source == FutureRows(prediction_tags[k])
          IN /\ Len(reports[k]) = Len(source)
             /\ \A i \in DOMAIN reports[k] :
                   /\ DOMAIN reports[k][i] = {"nom_dep", "year", "predicted_yield"}
                   /\ reports[k][i].year = source[i].year
                   /\ reports[k][i].predicted_yield \in PredictedYields

C18_Witness ==
    /\ pc = "predicted"
    /\ \E k \in DOMAIN reports :
          /\ Len(reports[k]) = 2
          /\ reports[k][1].nom_dep # reports[k][2].nom_dep
          /\ reports[k][1].predicted_yield # reports[k][2].predicted_yield

\* C19: once the reports are written, every scenario tag present in the
\* future scenarios table has a report table of its own, holding one row for
\* each row of the tag.
C19_OneReportPerScenario ==
    pc = "predicted" =>
        \A tag \in {r.scenario : r \in Range(future_climate)} :
            \E k \in DOMAIN reports :
                /\ prediction_tags[k] = tag
                /\ Len(reports[k]) = Len(FutureRows(tag))

\* C20: train_and_predict on a model type other than "xgboost" raises the
\* ValueError that names the type and starts no run, logs nothing and writes
\* no report; every run ever started is a run of "xgboost".
C20_UnsupportedModelType ==
    /\ [](\A k \in DOMAIN mlflow_runs : mlflow_runs[k].model_type = "xgboost")
    /\ [][(Training /\ Head(model_types) # "xgboost")
            => /\ raised' = <<"ValueError", "Unsupported model type: ",
                              Head(model_types)>>
               /\ pc' = "error"
               /\ mlflow_runs' = mlflow_runs
               /\ reports' = reports
               /\ scenario_inputs' = scenario_inputs]_vars

C20_Witness ==
    /\ raised = <<"ValueError", "Unsupported model type: ", "lightgbm">>
    /\ Len(mlflow_runs) = 1
    /\ model_types = <<>>

----------------------------------------------------------------------------
(* clean_bronze_data and bronze_to_silver.  A raw yield row has the        *)
(* columns nom_dep (department), year, yield, area and production after    *)
(* the renaming and to_numeric; a raw climate row is long: one value of    *)
(* one metric for a (scenario, department, day).                           *)

BRONZE_METRIC_TEMP_MEAN == "near_surface_air_temperature"
BRONZE_METRIC_TEMP_MAX == "daily_maximum_near_surface_air_temperature"
BRONZE_METRIC_PRECIP == "precipitation"

metric_map(metric) ==
    CASE metric = BRONZE_METRIC_TEMP_MEAN -> "temp_mean"
      [] metric = BRONZE_METRIC_TEMP_MAX -> "temp_max"
      [] metric = BRONZE_METRIC_PRECIP -> "precip"

(* str.strip() on the department names in use: a name with a trailing      *)
(* blank loses it, the others have none.                                   *)
Padded == <<"Ain ", "Aisne ">>
Trimmed == <<"Ain", "Aisne">>

strip(name) ==
    IF \E k \in DOMAIN Padded : Padded[k] = name
    THEN Trimmed[CHOOSE k \in DOMAIN Padded : Padded[k] = name]
    ELSE name

hist_mask(row) == row.scenario = SCENARIO_HISTORICAL

climate_depts(df_climate_in) ==
    {r.nom_dep : r \in {q \in Range(df_climate_in) : hist_mask(q)}}

climate_years(df_climate_in) ==
    {r.year : r \in {q \in Range(df_climate_in) : hist_mask(q)}}

(* 1. yield = production / area where yield is missing; the areas and      *)
(* productions drawn divide exactly.                                       *)
recoverable_never(row) == FALSE

recoverable(row) ==
    /\ isna(row.yield)
    /\ ~isna(row.area)
    /\ ~isna(row.production)
    /\ row.area > 0

true_divide(production, area) == production \div area

recover(df) ==
    [i \in DOMAIN df |->
        IF recoverable(df[i])
        THEN [df[i] EXCEPT !.yield = true_divide(df[i].production, df[i].area)]
        ELSE df[i]]

(* 2. and 3. the filters on department and year; isin of a missing year    *)
(* is False, the years of the climate table are never missing.             *)
dept_in_climate(row, depts) == strip(row.nom_dep) \in depts

year_in_climate_any(row, years) == TRUE

year_in_climate(row, years) == ~isna(row.year) /\ row.year \in years

(* 4. dropna(subset = [yield])                                             *)
dropna(df) ==
    LET present(r) == ~isna(r.yield)
    IN SelectSeq(df, present)

(* Series.clip(lower = 0): a missing value stays missing.                  *)
clip_none(v) == v

clip(v) == IF isna(v) THEN v ELSE IF v < 0 THEN 0 ELSE v

(* pivot_table: one wide row per (scenario, department, year, day), the    *)
(* keys sorted, one column per metric present in the table, a missing      *)
(* value where a key has no row of the metric.  The rows drawn have one    *)
(* value per key and metric, so the mean of a cell is that value.          *)
PivotKey(r) ==
    [scenario |-> r.scenario, nom_dep |-> r.nom_dep, year |-> r.year,
     time |-> r.time]

PivotLess(a, b) ==
    \/ StrRank(a.scenario) < StrRank(b.scenario)
    \/ a.scenario = b.scenario /\ DepTimeLess(a, b)

pivot_columns(df) == {metric_map(r.metric) : r \in Range(df)}

cell(df, key, column) ==
    LET rows == {r \in Range(df) :
                    PivotKey(r) = key /\ metric_map(r.metric) = column}
    IN IF rows = {} THEN NaN ELSE (CHOOSE r \in rows : TRUE).value

pivot_table(df) ==
    LET keys == {PivotKey(r) : r \in Range(df)}
        sorted == [k \in 1..Cardinality(keys) |->
                      CHOOSE x \in keys :
                          Cardinality({y \in keys : PivotLess(y, x)}) = k - 1]
    IN [k \in DOMAIN sorted |->
          sorted[k] @@ [temp_max |-> cell(df, sorted[k], "temp_max"),
                        precip |-> cell(df, sorted[k], "precip")]]

(* The columns the cleaning reads, under their names after _clean_cols.    *)
BRONZE_YIELD_COLUMNS == {"department", "year", "yield", "area", "production"}

BRONZE_CLIMATE_COLUMNS ==
    {"scenario", "nom_dep", "code_dep", "time", "year", "metric", "value"}

(* The column reads in the order of the code, each with the table it reads *)
(* and the name the KeyError carries: the department of the yield table    *)
(* is read under the name the rename gave it.  The first list is read      *)
(* before the log line on the share of yield rows kept, the second after.  *)
reads_before_log ==
    << <<"yield", "year", "year">>, <<"yield", "yield", "yield">>,
       <<"yield", "area", "area">>, <<"yield", "production", "production">>,
       <<"climate", "time", "time">>, <<"climate", "scenario", "scenario">>,
       <<"climate", "nom_dep", "nom_dep">>, <<"climate", "year", "year">>,
       <<"yield", "department", "nom_dep">> >>

reads_after_log ==
    << <<"climate", "metric", "metric">>, <<"climate", "value", "value">>,
       <<"climate", "code_dep", "code_dep">> >>

absent(read, yield_columns, climate_columns) ==
    IF read[1] = "yield" THEN read[2] \notin yield_columns
    ELSE read[2] \notin climate_columns

(* The reads of a list that fail; the first of them raises.                *)
failing_reads(reads, yield_columns, climate_columns) ==
    LET failing(read) == absent(read, yield_columns, climate_columns)
    IN SelectSeq(reads, failing)

(* clean_bronze_data: what it raises, or the two tables it returns.  A     *)
(* read of an absent column raises KeyError with the name of that column.  *)
(* The log line on the share of rows kept divides by the number of raw     *)
(* yield rows; the clip and the SSP2-4.5 warning read the columns precip   *)
(* and temp_max of the pivot.                                              *)
clean_bronze_data(df_yield_in, df_climate_in, yield_columns, climate_columns) ==
    LET n0 == Len(df_yield_in)
        depts == climate_depts(df_climate_in)
        years == climate_years(df_climate_in)
        kept_dept(r) == dept_in_climate(r, depts)
        kept_year(r) == year_in_climate(r, years)
        yield_out ==
            dropna(SelectSeq(SelectSeq(recover(df_yield_in), kept_dept),
                             kept_year))
        wide == pivot_table(df_climate_in)
        climate_out == [i \in DOMAIN wide |->
                           [wide[i] EXCEPT !.precip = clip(wide[i].precip)]]
        failed(error, what) ==
            [raised |-> <<error, what>>, yield_clean |-> NoTable,
             climate_clean |-> NoTable]
        before == failing_reads(reads_before_log, yield_columns,
                                climate_columns)
        after == failing_reads(reads_after_log, yield_columns,
                               climate_columns)
    IN IF before # <<>> THEN failed("KeyError", before[1][3])
       ELSE IF n0 = 0 THEN failed("ZeroDivisionError", "division by zero")
       ELSE IF after # <<>> THEN failed("KeyError", after[1][3])
       ELSE IF "precip" \notin pivot_columns(df_climate_in)
       THEN failed("KeyError", "precip")
       ELSE IF "temp_max" \notin pivot_columns(df_climate_in)
       THEN failed("KeyError", "temp_max")
       ELSE [raised |-> <<>>, yield_clean |-> yield_out,
             climate_clean |-> climate_out]

(* bronze_to_silver: the two silver tables are written when the cleaning   *)
(* returns.                                                                *)
BronzeToSilver ==
    /\ pc = "bronze"
    /\ LET cleaned == clean_bronze_data(df_yield_raw, df_climate_raw,
                                        yield_raw_columns,
                                        climate_raw_columns)
       IN IF cleaned.raised # <<>>
          THEN /\ raised' = cleaned.raised
               /\ pc' = "error"
               /\ UNCHANGED <<df_yield, df_climate>>
          ELSE /\ df_yield' = cleaned.yield_clean
               /\ df_climate' = cleaned.climate_clean
               /\ pc' = "silver_written"
               /\ UNCHANGED raised
    /\ UNCHANGED <<bronze_vars, train_vars, validation_threshold, todo,
                   scenario_data, dry_periods_df, extreme_events_df,
                   precip_lag_df, seasonal_features_df, scenario_features,
                   climate_clean, gold_vars, model_vars>>

(* The raw tables of the cleaning.  A yield row: a department written as  *)
(* in the climate table, with a trailing blank, or absent from it; a year  *)
(* or none; a yield, or one of the ways of lacking it.                     *)
MaxRawYieldRows == 1
MaxRawClimateRows == 2

RawDepartments == <<"Ain", "Ain ", "Var">>

RawYears == <<Years[1], Years[2], NaN>>

RawMeasures ==
    << [yield |-> 7, area |-> 10, production |-> 50],
       [yield |-> NaN, area |-> 10, production |-> 50],
       [yield |-> NaN, area |-> 0, production |-> 50],
       [yield |-> NaN, area |-> 10, production |-> NaN],
       [yield |-> NaN, area |-> NaN, production |-> 50] >>

RawYieldUniverse ==
    LET K == Cross(RawDepartments, Cross(RawYears, RawMeasures))
    IN [i \in DOMAIN K |->
          [nom_dep |-> K[i][1], year |-> K[i][2][1]] @@ K[i][2][2]]

RawDays ==
    << <<Departments[1], Date(Years[1], 6, 15)>>,
       <<Departments[2], Date(Years[2], 6, 15)>> >>

RawMetrics == <<BRONZE_METRIC_PRECIP, BRONZE_METRIC_TEMP_MAX>>

RawClimateKeys == Cross(GoldScenarios, Cross(RawDays, RawMetrics))

(* A precipitation below zero, and one above.                              *)
RawPrecip == {0 - 500, 300}

RawClimateRow(key, v) ==
    [scenario |-> key[1], nom_dep |-> key[2][1][1],
     year |-> key[2][1][2] \div 10000, time |-> key[2][1][2],
     metric |-> key[2][2],
     value |-> IF key[2][2] = BRONZE_METRIC_PRECIP THEN v ELSE MildTemp]

RawClimateTables ==
    UNION {{[i \in DOMAIN keys |-> RawClimateRow(keys[i], v[i])] :
               v \in [DOMAIN keys -> RawPrecip]} :
           keys \in SubTables(RawClimateKeys, MaxRawClimateRows)}

InitBronze ==
    \E yield \in SubTables(RawYieldUniverse, MaxRawYieldRows) :
        \E climate \in RawClimateTables :
            /\ pc = "bronze"
            /\ df_yield_raw = yield
            /\ df_climate_raw = climate
            /\ yield_raw_columns = BRONZE_YIELD_COLUMNS
            /\ climate_raw_columns = BRONZE_CLIMATE_COLUMNS
            /\ df_yield = NoTable
            /\ df_climate = NoTable
            /\ validation_threshold = VALIDATION_THRESHOLD_YEAR
            /\ todo = <<>>
            /\ scenario_data = NoTable
            /\ dry_periods_df = NoTable
            /\ extreme_events_df = NoTable
            /\ precip_lag_df = NoTable
            /\ seasonal_features_df = NoTable
            /\ scenario_features = <<>>
            /\ climate_clean = NoTable
            /\ training_data = NoTable
            /\ validation_data = NoTable
            /\ future_climate = NoTable
            /\ dep_encoder = <<>>
            /\ X_train = NoTable
            /\ y_train = <<>>
            /\ X_test = NoTable
            /\ y_test = <<>>
            /\ X_train_columns = <<>>
            /\ scenario_inputs = <<>>
            /\ predict_columns = <<>>
            /\ reports = <<>>
            /\ report_columns = <<>>
            /\ model_types = <<>>
            /\ mlflow_runs = <<>>
            /\ raised = <<>>

NextBronze == BronzeToSilver

SpecBronze == InitBronze /\ [][NextBronze]_vars

(* The departments and years of the historical rows of the raw climate    *)
(* table, read off the table itself.                                       *)
HistoricalDepartments ==
    {r.nom_dep : r \in {q \in Range(df_climate_raw) :
                           q.scenario = SCENARIO_HISTORICAL}}

HistoricalYears ==
    {r.year : r \in {q \in Range(df_climate_raw) :
                        q.scenario = SCENARIO_HISTORICAL}}

(* A raw yield row that lacks its yield and has what rebuilds it, in a     *)
(* department (blanks aside) and a year of the historical climate.         *)
Rebuildable(r) ==
    /\ r.yield = NaN
    /\ r.area # NaN /\ r.area > 0
    /\ r.production # NaN
    /\ \E d \in HistoricalDepartments : r.nom_dep \in {d, d \o " "}
    /\ r.year \in HistoricalYears

(* C11: a raw yield row with no yield, an area present and above zero and  *)
(* a production present gets yield = production / area (area 10 and        *)
(* production 50 give 5), and the row is in yield_clean when its           *)
(* department and year pass the filters.                                   *)
C11_YieldRecovery ==
    pc = "silver_written" =>
        \A i \in DOMAIN df_yield_raw :
            Rebuildable(df_yield_raw[i]) =>
                \E j \in DOMAIN df_yield :
                    /\ df_yield[j].nom_dep = df_yield_raw[i].nom_dep
                    /\ df_yield[j].year = df_yield_raw[i].year
                    /\ df_yield[j].area = df_yield_raw[i].area
                    /\ df_yield[j].production = df_yield_raw[i].production
                    /\ df_yield[j].yield * df_yield_raw[i].area
                           = df_yield_raw[i].production
                    /\ (df_yield_raw[i].area = 10
                        /\ df_yield_raw[i].production = 50
                           => df_yield[j].yield = 5)

C11_Witness ==
    /\ pc = "silver_written"
    /\ \E i \in DOMAIN df_yield_raw :
           /\ Rebuildable(df_yield_raw[i])
           /\ df_yield_raw[i].area = 10
           /\ df_yield_raw[i].production = 50
    /\ \E j \in DOMAIN df_yield : df_yield[j].yield = 5

(* C12: every department of yield_clean is a department of the historical  *)
(* rows of the climate table, also when the raw yield department carries   *)
(* blanks around it.                                                       *)
C12_DepartmentsInClimate ==
    pc = "silver_written" =>
        \A j \in DOMAIN df_yield :
            df_yield[j].nom_dep \in HistoricalDepartments

(* C13: every row of yield_clean has a year of the historical rows of the  *)
(* climate table and a yield that is not missing.                          *)
C13_YearsAndYields ==
    pc = "silver_written" =>
        \A j \in DOMAIN df_yield :
            /\ df_yield[j].year \in HistoricalYears
            /\ df_yield[j].yield # NaN

C13_Witness ==
    /\ pc = "silver_written"
    /\ df_yield # <<>>
    /\ \A j \in DOMAIN df_yield : df_yield[j].year \in HistoricalYears
    /\ \E r \in Range(df_climate_raw) : r.year \notin HistoricalYears

(* C14: every precipitation of climate_clean is >= 0 or missing: a raw     *)
(* precipitation below zero becomes 0, one that is not below zero is       *)
(* unchanged.                                                              *)
C14_PrecipitationClipped ==
    pc = "silver_written" =>
        /\ \A j \in DOMAIN df_climate :
               df_climate[j].precip = NaN \/ df_climate[j].precip >= 0
        /\ \A r \in Range(df_climate_raw) :
               r.metric = BRONZE_METRIC_PRECIP =>
                   \E j \in DOMAIN df_climate :
                       /\ df_climate[j].scenario = r.scenario
                       /\ df_climate[j].nom_dep = r.nom_dep
                       /\ df_climate[j].time = r.time
                       /\ df_climate[j].precip
                              = IF r.value < 0 THEN 0 ELSE r.value

C14_Witness ==
    /\ pc = "silver_written"
    /\ \E r \in Range(df_climate_raw) :
           /\ r.metric = BRONZE_METRIC_PRECIP
           /\ r.value < 0
           /\ \E j \in DOMAIN df_climate :
                  /\ df_climate[j].scenario = r.scenario
                  /\ df_climate[j].nom_dep = r.nom_dep
                  /\ df_climate[j].time = r.time
                  /\ df_climate[j].precip = 0

(* C15: with no historical row in the raw climate table the cleaning does  *)
(* not raise and returns an empty yield_clean, whatever the raw yield      *)
(* table holds.                                                            *)
C15_NoHistoricalRowNoRaise ==
    (pc # "bronze" /\ HistoricalDepartments = {}) =>
        /\ raised = <<>>
        /\ pc = "silver_written"
        /\ df_yield = <<>>

----------------------------------------------------------------------------
(* SpecSchema: bronze_to_silver on raw files that lack up to               *)
(* MaxMissingColumns of the columns the cleaning reads.  A row holds the   *)
(* values of the columns its file has.                                     *)
MaxMissingColumns == 2

(* The field of a raw row a column of the file is kept in.                 *)
field_of(column) == IF column = "department" THEN "nom_dep" ELSE column

project(df, columns) ==
    [i \in DOMAIN df |->
        [f \in {field_of(c) : c \in columns} \cap DOMAIN df[i] |-> df[i][f]]]

SchemaYield ==
    <<[nom_dep |-> "Ain", year |-> Years[1], yield |-> NaN, area |-> 10,
       production |-> 50]>>

SchemaClimate ==
    <<RawClimateRow(<<SCENARIO_HISTORICAL, <<RawDays[1], BRONZE_METRIC_PRECIP>> >>,
                    300),
      RawClimateRow(<<SCENARIO_HISTORICAL, <<RawDays[1], BRONZE_METRIC_TEMP_MAX>> >>,
                    300)>>

InitSchema ==
    \E gone_yield \in SUBSET BRONZE_YIELD_COLUMNS :
        \E gone_climate \in SUBSET BRONZE_CLIMATE_COLUMNS :
            \E yield \in {SchemaYield} :
                /\ Cardinality(gone_yield) + Cardinality(gone_climate)
                       <= MaxMissingColumns
                /\ pc = "bronze"
                /\ yield_raw_columns = BRONZE_YIELD_COLUMNS \ gone_yield
                /\ climate_raw_columns = BRONZE_CLIMATE_COLUMNS \ gone_climate
                /\ df_yield_raw
                       = project(yield, BRONZE_YIELD_COLUMNS \ gone_yield)
                /\ df_climate_raw
                       = project(SchemaClimate,
                                 BRONZE_CLIMATE_COLUMNS \ gone_climate)
                /\ df_yield = NoTable
                /\ df_climate = NoTable
                /\ validation_threshold = VALIDATION_THRESHOLD_YEAR
                /\ todo = <<>>
                /\ scenario_data = NoTable
                /\ dry_periods_df = NoTable
                /\ extreme_events_df = NoTable
                /\ precip_lag_df = NoTable
                /\ seasonal_features_df = NoTable
                /\ scenario_features = <<>>
                /\ climate_clean = NoTable
                /\ training_data = NoTable
                /\ validation_data = NoTable
                /\ future_climate = NoTable
                /\ dep_encoder = <<>>
                /\ X_train = NoTable
                /\ y_train = <<>>
                /\ X_test = NoTable
                /\ y_test = <<>>
                /\ X_train_columns = <<>>
                /\ scenario_inputs = <<>>
                /\ predict_columns = <<>>
                /\ reports = <<>>
                /\ report_columns = <<>>
                /\ model_types = <<>>
                /\ mlflow_runs = <<>>
                /\ raised = <<>>

NextSchema == BronzeToSilver

SpecSchema == InitSchema /\ [][NextSchema]_vars

(* The columns the raw files lack, each with the table it is read in.      *)
MissingColumns ==
    {<<"yield", c>> : c \in BRONZE_YIELD_COLUMNS \ yield_raw_columns}
    \cup {<<"climate", c>> : c \in BRONZE_CLIMATE_COLUMNS \ climate_raw_columns}

(* C21: with a column missing from a raw table the cleaning fails before   *)
(* any output table is produced, and the error names every missing column. *)
C21_MissingColumnsNamed ==
    (pc # "bronze" /\ MissingColumns # {}) =>
        /\ pc = "error"
        /\ df_yield = NoTable /\ df_climate = NoTable
        /\ \A m \in MissingColumns :
               \E k \in 2..Len(raised) : raised[k] = m[2]

----------------------------------------------------------------------------
(* SpecRuns: dry_periods or extreme_temperatures_and_rain applied to a     *)
(* series of daily records that may lack values and days.  The series is   *)
(* laid out as in SpecDry (the end of December of the first year and the   *)
(* start of January of the next for the first department, then the start   *)
(* of January for the second), with a record every stride days.  A record  *)
(* is dry, wet, without any value, cold without precipitation, or rainy    *)
(* without temperature; a record keeps its row in the silver table as      *)
(* long as one of its metrics, temp_mean included, has a value.  The       *)
(* series is every pattern of up to MaxRunDays records, and the runs of 8  *)
(* and 10 dry records.                                                     *)
MaxRunDays == 4

DryDay == [temp_max |-> MildTemp, precip |-> 0]

WetDay == [temp_max |-> MildTemp, precip |-> DRY_DAY_PRECIP_THRESHOLD_MM]

MissingDay == [temp_max |-> NaN, precip |-> NaN]

ColdDayNoPrecip == [temp_max |-> FREEZE_THRESHOLD_KELVIN - 500, precip |-> NaN]

RainyDayNoTemp == [temp_max |-> NaN, precip |-> HEAVY_RAIN_THRESHOLD_MM + 500]

RunKinds == {DryDay, WetDay, MissingDay, ColdDayNoPrecip, RainyDayNoTemp}

DryBlock(n) == [i \in 1..n |-> DryDay]

RunPatterns == SeqsUpTo(RunKinds, MaxRunDays) \cup {DryBlock(8), DryBlock(10)}

Strides == {1, 3}

RunSeries(pattern, c1, c2, stride) ==
    [i \in DOMAIN pattern |->
        IF i <= c1
        THEN DayRow(SCENARIO_HISTORICAL, Departments[1],
                    Date(Years[1], 12, 31 - (c1 - i) * stride),
                    pattern[i].temp_max, pattern[i].precip)
        ELSE IF i <= c2
        THEN DayRow(SCENARIO_HISTORICAL, Departments[1],
                    Date(Years[2], 1, 1 + (i - c1 - 1) * stride),
                    pattern[i].temp_max, pattern[i].precip)
        ELSE DayRow(SCENARIO_HISTORICAL, Departments[2],
                    Date(Years[2], 1, 1 + (i - c2 - 1) * stride),
                    pattern[i].temp_max, pattern[i].precip)]

InitRuns ==
    \E p \in RunPatterns :
        \E c1 \in 0..Len(p) :
            \E c2 \in c1..Len(p) :
                \E stride \in Strides :
                    \E at \in {"dry_call", "extreme_call"} :
                        /\ InitCall(at, NoTable, NoTable,
                                    RunSeries(p, c1, c2, stride),
                                    VALIDATION_THRESHOLD_YEAR)
                        /\ climate_clean = NoTable /\ model_types = <<>>

NextRuns == DryCall \/ ExtremeCall

SpecRuns == InitRuns /\ [][NextRuns]_vars

(* The dry records of a department, and the records of a department and   *)
(* year, read off the slice.                                               *)
DryRecords(d) ==
    {r \in Range(scenario_data) :
        r.nom_dep = d /\ r.precip # NaN /\ r.precip < 10}

RecordsOf(d, y) == {r \in Range(scenario_data) : r.nom_dep = d /\ r.year = y}

FirstTime(d) == CHOOSE t \in TimesOf(scenario_data, d) :
                    \A u \in TimesOf(scenario_data, d) : t <= u

LastTime(d) == CHOOSE t \in TimesOf(scenario_data, d) :
                   \A u \in TimesOf(scenario_data, d) : u <= t

(* The last record of the first department and the first record of the    *)
(* second, which follow each other in the sorted table, are both dry.      *)
DryAcrossDepartments ==
    /\ TimesOf(scenario_data, Departments[1]) # {}
    /\ TimesOf(scenario_data, Departments[2]) # {}
    /\ \E r \in DryRecords(Departments[1]) : r.time = LastTime(Departments[1])
    /\ \E r \in DryRecords(Departments[2]) : r.time = FirstTime(Departments[2])

(* C22: a run of dry days never spans two departments: no run is longer    *)
(* than the dry days of its own department, and when the last day of one   *)
(* department and the first day of the next are both dry, each keeps the   *)
(* runs of its own days.                                                   *)
C22_RunsWithinDepartment ==
    pc = "dry_done" =>
        \A i \in DOMAIN dry_periods_df :
            LET row == dry_periods_df[i]
            IN /\ row.max_dry_spell_days
                      <= Cardinality(DryRecords(row.nom_dep))
               /\ row.dry_periods_count * 7
                      <= Cardinality(DryRecords(row.nom_dep))
               /\ DryAcrossDepartments =>
                      /\ row.max_dry_spell_days
                             = LongestRun(scenario_data, row.nom_dep, row.year)
                      /\ row.dry_periods_count
                             = Cardinality(LongRuns(scenario_data, row.nom_dep,
                                                    row.year))

C22_Witness ==
    /\ pc = "dry_done"
    /\ DryAcrossDepartments
    /\ LastTime(Departments[1]) \div 10000 = FirstTime(Departments[2]) \div 10000
    /\ Cardinality(DryRecords(Departments[1])) = 4
    /\ Cardinality(DryRecords(Departments[2])) = 4
    /\ \A i \in DOMAIN dry_periods_df :
           /\ dry_periods_df[i].max_dry_spell_days = 4
           /\ dry_periods_df[i].dry_periods_count = 0

(* The records of a department are ten dry days in a row, four at the end  *)
(* of one year and six at the start of the next.                           *)
TenDaysOverNewYear(d) ==
    /\ TimesOf(scenario_data, d)
           = {Date(Years[1], 12, k) : k \in 28..31}
             \cup {Date(Years[2], 1, k) : k \in 1..6}
    /\ \A r \in Range(scenario_data) : r.nom_dep = d => r \in DryRecords(d)

(* C23: a run that crosses Dec 31 / Jan 1 is split at the year boundary:   *)
(* each year is credited with the days of the run in that year only, and   *)
(* ten dry days, four in one year and six in the next, give a count of 0   *)
(* in both years and longest spells of 4 and 6.                            *)
C23_RunsSplitAtNewYear ==
    pc = "dry_done" =>
        \A i \in DOMAIN dry_periods_df :
            LET row == dry_periods_df[i]
                days == Cardinality(DryTimes(scenario_data, row.nom_dep,
                                             row.year))
            IN /\ row.max_dry_spell_days <= days
               /\ row.dry_periods_count * 7 <= days
               /\ TenDaysOverNewYear(row.nom_dep) =>
                      /\ row.dry_periods_count = 0
                      /\ row.year = Years[1] => row.max_dry_spell_days = 4
                      /\ row.year = Years[2] => row.max_dry_spell_days = 6

C23_Witness ==
    /\ pc = "dry_done"
    /\ TenDaysOverNewYear(Departments[1])
    /\ \E i, j \in DOMAIN dry_periods_df :
           /\ dry_periods_df[i].year = Years[1]
           /\ dry_periods_df[i].max_dry_spell_days = 4
           /\ dry_periods_df[i].dry_periods_count = 0
           /\ dry_periods_df[j].year = Years[2]
           /\ dry_periods_df[j].max_dry_spell_days = 6
           /\ dry_periods_df[j].dry_periods_count = 0

(* C27: consecutive means next to each other in the sorted records of the  *)
(* department, whatever the dates: when all the records of a department    *)
(* and year are dry they are one run, with or without days missing         *)
(* between them.                                                           *)
C27_GapsDoNotEndRuns ==
    pc = "dry_done" =>
        \A i \in DOMAIN dry_periods_df :
            LET row == dry_periods_df[i]
                records == RecordsOf(row.nom_dep, row.year)
            IN records \subseteq DryRecords(row.nom_dep) =>
                  /\ row.max_dry_spell_days = Cardinality(records)
                  /\ row.dry_periods_count
                         = (IF Cardinality(records) >= 7 THEN 1 ELSE 0)

C27_Witness ==
    /\ pc = "dry_done"
    /\ \E i \in DOMAIN dry_periods_df :
           LET row == dry_periods_df[i]
               records == RecordsOf(row.nom_dep, row.year)
           IN /\ records \subseteq DryRecords(row.nom_dep)
              /\ Cardinality(records) = 8
              /\ \A r \in records :
                     \A q \in records : q.time # r.time + 1
              /\ row.max_dry_spell_days = 8
              /\ row.dry_periods_count = 1

(* C29: a record with a missing precipitation or temp_max is no event: it  *)
(* is not a dry day and ends the dry run, and is no freeze, heat or        *)
(* heavy-rain day; a department and year with every value missing gets     *)
(* counts of 0, not missing counts.                                        *)
C29_MissingValuesAreNoEvents ==
    /\ pc = "dry_done" =>
          \A i \in DOMAIN dry_periods_df :
              LET row == dry_periods_df[i]
                  records == RecordsOf(row.nom_dep, row.year)
              IN /\ row.dry_periods_count \in Nat
                 /\ row.max_dry_spell_days \in Nat
                 /\ row.max_dry_spell_days
                        = LongestRun(scenario_data, row.nom_dep, row.year)
                 /\ row.dry_periods_count
                        = Cardinality(LongRuns(scenario_data, row.nom_dep,
                                               row.year))
                 /\ (\A r \in records : r.precip = NaN) =>
                        /\ row.dry_periods_count = 0
                        /\ row.max_dry_spell_days = 0
    /\ pc = "extreme_done" =>
          \A i \in DOMAIN extreme_events_df :
              LET row == extreme_events_df[i]
                  records == RecordsOf(row.nom_dep, row.year)
              IN /\ row.freeze_days_count
                        = Cardinality({r \in records :
                              r.temp_max # NaN /\ r.temp_max < 27315})
                 /\ row.heat_days_count
                        = Cardinality({r \in records :
                              r.temp_max # NaN /\ r.temp_max > 30315})
                 /\ row.heavy_rain_days_count
                        = Cardinality({r \in records :
                              r.precip # NaN /\ r.precip > 2000})
                 /\ (\A r \in records : r.temp_max = NaN /\ r.precip = NaN) =>
                        /\ row.freeze_days_count = 0
                        /\ row.heat_days_count = 0
                        /\ row.heavy_rain_days_count = 0

C29_Witness ==
    /\ pc = "dry_done"
    /\ \E i, j \in DOMAIN dry_periods_df :
           LET row == dry_periods_df[i]
               none == dry_periods_df[j]
           IN /\ Cardinality(DryTimes(scenario_data, row.nom_dep, row.year)) = 2
              /\ \E r \in RecordsOf(row.nom_dep, row.year) :
                     /\ r.precip = NaN
                     /\ \E a, b \in DryRecords(row.nom_dep) :
                            a.year = r.year /\ b.year = r.year
                            /\ a.time < r.time /\ r.time < b.time
              /\ row.max_dry_spell_days = 1
              /\ \A r \in RecordsOf(none.nom_dep, none.year) : r.precip = NaN
              /\ none.max_dry_spell_days = 0
              /\ none.dry_periods_count = 0

----------------------------------------------------------------------------
(* SpecOrder: silver_to_gold on a silver climate table of at most          *)
(* MaxOrderRows daily records whose rows come in the order of the keys or  *)
(* in the reverse order.                                                   *)
MaxOrderRows == 2

Reverse(df) == [i \in DOMAIN df |-> df[Len(df) + 1 - i]]

InitOrder ==
    \E yield \in SubTables(YieldUniverse, MaxYieldRows) :
        \E keys \in SubTables(ClimateKeys, MaxOrderRows) :
            \E kinds \in [DOMAIN keys -> DayKinds] :
                \E climate \in {ClimateTable(keys, kinds),
                                Reverse(ClimateTable(keys, kinds))} :
                    /\ InitCall("start", yield, climate, NoTable,
                                VALIDATION_THRESHOLD_YEAR)
                    /\ climate_clean = NoTable
                    /\ model_types = <<>>

NextOrder == ReadSilver \/ LoopIteration \/ ConcatAndWrite

SpecOrder == InitOrder /\ [][NextOrder]_vars

(* The feature table of a slice: the four extractors and the merges.       *)
FeatureTable(scenario, data) ==
    scenario_clean(scenario, data, dry_periods(data, MIN_DRY_SPELL_DAYS),
                   extreme_temperatures_and_rain(data),
                   seasonal_temperatures_and_rain(data),
                   precipitation_lag(data))

(* The rows of the concatenated table that carry a scenario, in order.     *)
FeaturesOf(S) ==
    LET tagged(r) == r.scenario = S
    IN SelectSeq(climate_clean, tagged)

----------------------------------------------------------------------------
(* The January and February days of a department and year in a table.      *)
OwnWinterDays(data, d, y) ==
    {r \in DaysOf(data, d, y) : month(r.time) \in {1, 2}}

FirstYear(data, d) ==
    CHOOSE y \in {r.year : r \in {q \in Range(data) : q.nom_dep = d}} :
        \A r \in Range(data) : r.nom_dep = d => y <= r.year

(* C28: the merge of the winter totals adds no row to the feature table of *)
(* a scenario and removes none: a total of a growing year without daily    *)
(* record in the slice is dropped, and the first year of a department in   *)
(* the slice gets the total of its own January and February days, none of  *)
(* another scenario.                                                       *)
C28_WinterMergeKeepsRows ==
    \A k \in DOMAIN scenario_features :
        LET merged == scenario_features[k]
            slice == SourceRows(drop_duplicates(Column(df_climate, "scenario"))[k])
            base == drop_duplicates(DeptYear(slice))
        IN /\ Len(merged) = Len(base)
           /\ \A i \in DOMAIN merged :
                  /\ SameKey(merged[i], base[i])
                  /\ merged[i].year = FirstYear(slice, merged[i].nom_dep) =>
                        LET own == OwnWinterDays(slice, merged[i].nom_dep,
                                                 merged[i].year)
                        IN merged[i].winter_precip_total
                               = (IF own = {} THEN NaN
                                  ELSE SumSet({<<r.time, r.precip>> : r \in own}))
           /\ \A d \in Range(Departments) :
                  \A g \in GrowingYears :
                      (WinterDays(slice, d, g) # {} /\ DaysOf(slice, d, g) = {})
                          => \A i \in DOMAIN merged :
                                 ~(merged[i].nom_dep = d /\ merged[i].year = g)

C28_Witness ==
    /\ Len(scenario_features) = 2
    /\ LET first == SourceRows(SCENARIO_HISTORICAL)
           second == SourceRows(SCENARIO_SSP1_2_6)
           d == Departments[1]
       IN /\ scenario_features[1][1].scenario = SCENARIO_HISTORICAL
          /\ \E r \in WinterDays(first, d, Years[2]) : r.precip > 0
          /\ DaysOf(first, d, Years[2]) = {}
          /\ Len(scenario_features[1]) = 1
          /\ scenario_features[1][1].winter_precip_total = NaN
          /\ OwnWinterDays(second, d, Years[2]) # {}
          /\ Len(scenario_features[2]) = 1
          /\ scenario_features[2][1].year = Years[2]
          /\ scenario_features[2][1].winter_precip_total = 0

----------------------------------------------------------------------------
(* The places of the steps of a run that satisfy an operation name.        *)
StepsOf(run, op) == {i \in DOMAIN run.steps : run.steps[i].op = op}

(* C25: in a run of train_xgboost_model the metrics come from predictions  *)
(* of the model fitted on the training rows only, the model logged is that *)
(* model, the refit on training plus validation rows comes after the       *)
(* metrics and the model are logged, and every scenario is predicted by    *)
(* the refitted model.                                                     *)
C25_MetricsBeforeRefit ==
    \A k \in DOMAIN mlflow_runs :
        LET run == mlflow_runs[k]
        IN /\ \A i \in StepsOf(run, "log_metric") :
                  run.steps[i].y_pred = {"X_train"}
           /\ {run.steps[i].arg : i \in StepsOf(run, "log_metric")} = 1..5
           /\ \A i \in StepsOf(run, "log_model") :
                  run.steps[i].model = {"X_train"}
           /\ \A r \in StepsOf(run, "fit_full") :
                  \A i \in StepsOf(run, "log_metric")
                             \cup StepsOf(run, "log_model") : i < r
           /\ \A i \in StepsOf(run, "predict") :
                  run.steps[i].model = {"X_train", "X_test"}

C25_Witness ==
    /\ pc = "predicted"
    /\ \E k \in DOMAIN mlflow_runs :
           LET run == mlflow_runs[k]
           IN /\ Cardinality(StepsOf(run, "log_metric")) = 5
              /\ Cardinality(StepsOf(run, "predict")) = 3
              /\ StepsOf(run, "fit_full") # {}
    /\ \E k \in DOMAIN reports : reports[k] # <<>>
    /\ X_test # <<>>

(* C26: prediction_pipeline encodes the three scenarios before the first   *)
(* predict call and makes all predictions before it writes the first       *)
(* report, so that when a scenario holds a department the encoder does not *)
(* know, the run makes no prediction and writes no report for any          *)
(* scenario.                                                               *)
C26_AllOrNothing ==
    /\ [](\A k \in DOMAIN mlflow_runs :
            LET run == mlflow_runs[k]
            IN /\ \A t \in StepsOf(run, "transform") :
                      \A q \in StepsOf(run, "predict") : t < q
               /\ \A q \in StepsOf(run, "predict") :
                      \A w \in StepsOf(run, "to_csv") : q < w
               /\ StepsOf(run, "predict") # {} =>
                      Cardinality(StepsOf(run, "transform")) = 3
               /\ StepsOf(run, "to_csv") # {} =>
                      Cardinality(StepsOf(run, "predict")) = 3)
    /\ [][(Training /\ Head(model_types) = "xgboost" /\ UnseenDepartment)
            => /\ pc' = "error"
               /\ reports' = reports
               /\ report_columns' = report_columns
               /\ predict_columns' = predict_columns
               /\ Len(mlflow_runs') = Len(mlflow_runs) + 1
               /\ LET run == mlflow_runs'[Len(mlflow_runs')]
                  IN /\ StepsOf(run, "predict") = {}
                     /\ StepsOf(run, "to_csv") = {}
                     /\ StepsOf(run, "log_artifact") = {}]_vars

C26_Witness ==
    /\ pc = "error"
    /\ raised = <<"ValueError", "y contains previously unseen labels">>
    /\ FutureRows(prediction_tags[1]) # <<>>
    /\ \A r \in Range(FutureRows(prediction_tags[1])) :
           r.nom_dep \in FittedDepartments
    /\ \E r \in Range(FutureRows(prediction_tags[2])) :
           r.nom_dep \notin FittedDepartments
    /\ reports = <<>>
    /\ LET run == mlflow_runs[Len(mlflow_runs)]
       IN /\ Cardinality(StepsOf(run, "transform")) = 1
          /\ StepsOf(run, "predict") = {}

====
